---- MODULE Spec2Model ----
(***************************************************************************)
(* Contact importer: field mapping engine (lib/fieldMapping.ts), import    *)
(* reconciliation (hooks/useFirestore.ts, useContacts) and the import      *)
(* wizard (components/import).                                             *)
(*                                                                         *)
(* Strings are sequences of one-character strings, so that trim(),         *)
(* toLowerCase(), replace() and the regular expressions of the source are  *)
(* computed character by character.                                        *)
(***************************************************************************)
EXTENDS Integers, Sequences, FiniteSets, TLC

VARIABLES
    pc,                 \* which specification is running and where it is
    headers,            \* fileData.headers
    rows,               \* fileData.rows
    mappings,           \* confirmed mappings, in Object.entries order
    users,              \* the user directory (useUsers().data)
    processedContacts,  \* result of processAllRowsForImport
    existingContacts,   \* the contacts collection, as the snapshot lists it
    analyzedAgainst,    \* the existingContacts the last analysis was given
    previewSummary,     \* ImportPreview state: the plan of the last analysis
    importedPlan,       \* the plan importContacts was called with
    issuedOps,          \* the operations importContacts handed to the store
    importResults,      \* what importContacts returned
    nextId,             \* number of document ids the store has generated
    currentStep,        \* ImportModal: the wizard step
    detectedFields,     \* ImportModal: what field detection returned
    draftMappings,      \* FieldMapping: the mappings being edited
    isImporting,        \* ImportModal: an import is running
    modalResults,       \* ImportModal: importResults
    validationErrors,   \* errors handleMappingComplete reported
    contactFields,      \* the contactFields collection: the field catalog
    fieldsData,         \* useContactFields: the loading flag and data of the hook
    lastCall,           \* the last call of a hook function and how it settled
    tx,                 \* transactionWrite: the call in progress
    uploadError,        \* FileUpload: the error state
    persisted,          \* contacts the store committed for the last import
    guard               \* AuthGuard: what useAuth and the router give it, and
                        \* what it rendered and pushed

vars == <<pc, headers, rows, mappings, users, processedContacts, existingContacts,
          analyzedAgainst, previewSummary, importedPlan, issuedOps, importResults,
          nextId, currentStep, detectedFields, draftMappings, isImporting,
          modalResults, validationErrors, contactFields, fieldsData, lastCall, tx,
          uploadError, persisted, guard>>

\* what the hooks and FileUpload hold
hookVars == <<contactFields, fieldsData, lastCall, tx, uploadError, persisted, guard>>

wizardVars == <<currentStep, detectedFields, draftMappings, isImporting,
                modalResults, validationErrors>>

importVars == <<existingContacts, analyzedAgainst, previewSummary, importedPlan,
                issuedOps, importResults, nextId>>

\* no import has written anything
NoneWritten == [created |-> 0, updated |-> 0]

\* AuthGuard before its first render
NoGuard == [user |-> <<"null">>, loading |-> TRUE, pathname |-> "/",
            rendered |-> "none", pushed |-> <<>>]

\* useState of useFirestore: data and loading after a snapshot delivered items
Loaded(items) == [loading |-> FALSE, data |-> items]

\* no hook function has been called yet
NoCall == [op |-> "none", n |-> 0]

\* no transactionWrite is in progress
NoTx == [call |-> "none", phase |-> "idle"]

\* JavaScript null / undefined / NaN: a one-element sequence that is no string
NULL == <<"null">>

\* useState<PreviewSummary | null>(null), and the import not yet run
NoSummary == [absent |-> TRUE]

NoResults == [absent |-> TRUE]

(***************************************************************************)
(* Characters and strings                                                  *)
(***************************************************************************)
Digits == {"0", "1", "2", "3", "4", "5", "6", "7", "8", "9"}

Spaces == {" ", "\t"}

UpperToLower ==
    [A |-> "a", B |-> "b", C |-> "c", D |-> "d", E |-> "e", F |-> "f", G |-> "g",
     H |-> "h", I |-> "i", J |-> "j", K |-> "k", L |-> "l", M |-> "m", N |-> "n",
     O |-> "o", P |-> "p", Q |-> "q", R |-> "r", S |-> "s", T |-> "t", U |-> "u",
     V |-> "v", W |-> "w", X |-> "x", Y |-> "y", Z |-> "z"]

IsDigit(ch) == ch \in Digits

IsSpace(ch) == ch \in Spaces

ToLowerChar(ch) == IF ch \in DOMAIN UpperToLower THEN UpperToLower[ch] ELSE ch

\* String.prototype.toLowerCase
ToLowerCase(s) == [i \in 1..Len(s) |-> ToLowerChar(s[i])]

RECURSIVE TrimStart(_)
TrimStart(s) == IF s # <<>> /\ IsSpace(Head(s)) THEN TrimStart(Tail(s)) ELSE s

RECURSIVE TrimEnd(_)
TrimEnd(s) ==
    IF s # <<>> /\ IsSpace(s[Len(s)]) THEN TrimEnd(SubSeq(s, 1, Len(s) - 1)) ELSE s

\* String.prototype.trim
Trim(s) == TrimEnd(TrimStart(s))

IsPhoneChar(ch) == IsDigit(ch) \/ IsSpace(ch) \/ ch \in {"+", "-", "(", ")", "."}

\* s.replace(/[^\d\+\-\(\)\s\.]/g, '')
KeepPhoneChars(s) == SelectSeq(s, IsPhoneChar)

\* s.replace(/\D/g, '')
DigitsOnly(s) == SelectSeq(s, IsDigit)

IsLocalChar(ch) == ~IsSpace(ch) /\ ch # "@"

AllLocal(s) == \A i \in 1..Len(s) : IsLocalChar(s[i])

\* /^[^\s@]+@[^\s@]+\.[^\s@]+$/.test(s)
EmailRegexTest(s) ==
    \E i \in 2..Len(s) : \E j \in (i + 2)..(Len(s) - 1) :
        /\ s[i] = "@"
        /\ s[j] = "."
        /\ AllLocal(SubSeq(s, 1, i - 1))
        /\ AllLocal(SubSeq(s, i + 1, j - 1))
        /\ AllLocal(SubSeq(s, j + 1, Len(s)))

(***************************************************************************)
(* parseFloat(s).toString() for decimal literals without exponent          *)
(***************************************************************************)
RECURSIVE DigitPrefixLen(_)
DigitPrefixLen(s) ==
    IF s # <<>> /\ IsDigit(Head(s)) THEN 1 + DigitPrefixLen(Tail(s)) ELSE 0

RECURSIVE StripLeadingZeros(_)
StripLeadingZeros(s) ==
    IF s # <<>> /\ Head(s) = "0" THEN StripLeadingZeros(Tail(s)) ELSE s

RECURSIVE StripTrailingZeros(_)
StripTrailingZeros(s) ==
    IF s # <<>> /\ s[Len(s)] = "0"
    THEN StripTrailingZeros(SubSeq(s, 1, Len(s) - 1))
    ELSE s

\* parseFloat reads the longest prefix  [+-] digits [. digits]  or
\* [+-] . digits ; NULL stands for NaN.  The result is Number#toString.
ParseFloatToString(s) ==
    LET signed   == s # <<>> /\ Head(s) \in {"+", "-"}
        negative == signed /\ Head(s) = "-"
        body     == IF signed THEN Tail(s) ELSE s
        intLen   == DigitPrefixLen(body)
        rest     == SubSeq(body, intLen + 1, Len(body))
        hasDot   == rest # <<>> /\ Head(rest) = "."
        fracLen  == IF hasDot THEN DigitPrefixLen(Tail(rest)) ELSE 0
        intPart  == StripLeadingZeros(SubSeq(body, 1, intLen))
        fracPart == StripTrailingZeros(SubSeq(rest, 2, 1 + fracLen))
        isZero   == intPart = <<>> /\ fracPart = <<>>
        digits   == (IF intPart = <<>> THEN <<"0">> ELSE intPart)
                    \o (IF fracPart = <<>> THEN <<>> ELSE <<".">> \o fracPart)
    IN  IF intLen = 0 /\ fracLen = 0 THEN NULL
        ELSE IF negative /\ ~isZero THEN <<"-">> \o digits ELSE digits

(***************************************************************************)
(* new Date(s).toISOString()                                               *)
(***************************************************************************)
\* YYYY-MM-DD, the date-only form of the ECMAScript date-time format
\* (days 01..29, which every month has)
IsIsoDate(s) ==
    /\ Len(s) = 10
    /\ \A i \in {1, 2, 3, 4, 6, 7, 9, 10} : IsDigit(s[i])
    /\ s[5] = "-" /\ s[8] = "-"
    /\ \/ s[6] = "0" /\ s[7] # "0"
       \/ s[6] = "1" /\ s[7] \in {"0", "1", "2"}
    /\ \/ s[9] = "0" /\ s[10] # "0"
       \/ s[9] \in {"1", "2"}

IsoTimeSuffix == <<"T", "0", "0", ":", "0", "0", ":", "0", "0", ".", "0", "0", "0", "Z">>

\* what a lenient legacy parser makes of a text that is no ISO date
LegacyDate == <<"2", "0", "0", "1", "-", "0", "1", "-", "0", "1">> \o IsoTimeSuffix

\* Text outside the ECMAScript format is parsed in an implementation-defined
\* way: with lenient = TRUE a text holding a digit is accepted, else rejected.
DateToISOString(s, lenient) ==
    IF IsIsoDate(s) THEN s \o IsoTimeSuffix
    ELSE IF lenient /\ \E i \in 1..Len(s) : IsDigit(s[i]) THEN LegacyDate
    ELSE NULL

(***************************************************************************)
(* Contacts: functions from a set of field ids to strings                  *)
(***************************************************************************)
EmptyContact == [k \in {} |-> <<>>]

\* contact[key] = value
SetField(contact, key, value) ==
    [k \in DOMAIN contact \cup {key} |-> IF k = key THEN value ELSE contact[k]]

\* (contact[k] ?? '').toString()
FieldOrEmpty(contact, k) == IF k \in DOMAIN contact THEN contact[k] ELSE <<>>

Unassigned == <<"u", "n", "a", "s", "s", "i", "g", "n", "e", "d">>

TrueTokens ==
    { <<"t", "r", "u", "e">>, <<"1">>, <<"y", "e", "s">>, <<"y">>, <<"o", "n">> }

FalseTokens ==
    { <<"f", "a", "l", "s", "e">>, <<"0">>, <<"n", "o">>, <<"n">>, <<"o", "f", "f">> }

(***************************************************************************)
(* FieldMappingEngine.processFieldValue                                    *)
(***************************************************************************)
ProcessFieldValue(rawValue, fieldType, lenient) ==
    IF rawValue = NULL \/ rawValue = <<>> THEN NULL
    ELSE LET trimmed == Trim(rawValue) IN
         IF trimmed = <<>> THEN NULL
         ELSE CASE fieldType = "email"    -> ToLowerCase(trimmed)
                []  fieldType = "phone"    -> Trim(KeepPhoneChars(trimmed))
                []  fieldType = "number"   -> ParseFloatToString(trimmed)
                []  fieldType = "checkbox" ->
                        IF ToLowerCase(trimmed) \in TrueTokens THEN <<"t", "r", "u", "e">>
                        ELSE IF ToLowerCase(trimmed) \in FalseTokens
                             THEN <<"f", "a", "l", "s", "e">>
                             ELSE NULL
                []  fieldType = "datetime" -> DateToISOString(trimmed, lenient)
                []  OTHER                  -> trimmed

(***************************************************************************)
(* FieldMappingEngine.processAllRowsForImport                              *)
(***************************************************************************)
\* headers.indexOf(name); 0 stands for -1
RECURSIVE IndexOfFrom(_, _, _)
IndexOfFrom(seq, x, i) ==
    IF i > Len(seq) THEN 0
    ELSE IF seq[i] = x THEN i ELSE IndexOfFrom(seq, x, i + 1)

IndexOf(seq, x) == IndexOfFrom(seq, x, 1)

\* emailToAgentUidMap: a later user with the same lower-cased email wins
RECURSIVE EmailToAgentUid(_, _, _)
EmailToAgentUid(us, emailLower, i) ==
    IF i = 0 THEN NULL
    ELSE IF ToLowerCase(us[i].email) = emailLower THEN us[i].id
    ELSE EmailToAgentUid(us, emailLower, i - 1)

\* the agentUid branch: the looked-up uid is computed and then not used
ResolveAgent(us, processedValue) ==
    LET emailLower == Trim(ToLowerCase(processedValue))
        agentUid   == EmailToAgentUid(us, emailLower, Len(us))
    IN  IF emailLower # <<>> THEN emailLower ELSE Unassigned

\* the body of Object.entries(mappings).forEach for one mapping
ApplyMapping(contact, hs, row, mapping, us, lenient) ==
    LET columnIndex == IndexOf(hs, mapping.name) IN
    IF columnIndex = 0 THEN contact
    ELSE LET rawValue  == IF columnIndex <= Len(row) THEN row[columnIndex] ELSE NULL
             coerced   == ProcessFieldValue(rawValue, mapping.targetFieldType, lenient)
             processed == IF mapping.targetField = "agentUid"
                             /\ coerced # NULL /\ coerced # <<>>
                          THEN ResolveAgent(us, coerced)
                          ELSE coerced
         IN  IF processed # NULL
             THEN SetField(contact, mapping.targetField, processed)
             ELSE contact

RECURSIVE ProcessRow(_, _, _, _, _, _)
ProcessRow(contact, hs, row, ms, us, lenient) ==
    IF ms = <<>> THEN contact
    ELSE ProcessRow(ApplyMapping(contact, hs, row, Head(ms), us, lenient),
                    hs, row, Tail(ms), us, lenient)

RECURSIVE ProcessAllRowsForImport(_, _, _, _, _)
ProcessAllRowsForImport(hs, rs, ms, us, lenient) ==
    IF rs = <<>> THEN <<>>
    ELSE LET contact == ProcessRow(EmptyContact, hs, Head(rs), ms, us, lenient)
             rest    == ProcessAllRowsForImport(hs, Tail(rs), ms, us, lenient)
         IN  IF DOMAIN contact # {} THEN <<contact>> \o rest ELSE rest

(***************************************************************************)
(* Inputs of row normalization                                             *)
(***************************************************************************)
MaxRawRows == 1

\* sequences over S of length lo..hi
SeqsOf(S, lo, hi) == UNION { [1..n -> S] : n \in lo..hi }

RawCells ==
    { <<>>,
      <<" ">>,
      <<"\t", " ">>,
      <<" ", "B", "o", "b", " ">>,
      <<"J", "o", "@", "b", ".", "c", "o">>,
      <<" ", "a", "m", "y", "@", "b", ".", "c", "o", "\t">>,
      <<"n", "o", "@", "b">>,
      <<"a", "b", "c">>,
      <<"(", "1", ")", " ", "2", "-", "3">>,
      <<"x", "1", "2">>,
      <<"-", "1", ".", "5", "0">>,
      <<"0", "0", "7">>,
      <<".", "5">>,
      <<"Y", "e", "s">>,
      <<"o", "f", "f">>,
      <<"2", "0", "2", "0", "-", "0", "1", "-", "0", "2">>,
      <<"1", "/", "2">> }

RawRows ==
    { <<c>> : c \in RawCells }
    \cup { <<c, d>> : c \in RawCells, d \in { <<>>, <<"A", "n", "n">> } }

\* the mapping of column "A": target field and value type
FirstMappings ==
    { [name |-> "A", targetField |-> t[1], targetFieldType |-> t[2]] :
        t \in { <<"email", "email">>, <<"email", "text">>, <<"phone", "phone">>,
                <<"agentUid", "text">>, <<"agentUid", "email">>, <<"agentUid", "phone">>,
                <<"score", "number">>, <<"optIn", "checkbox">>,
                <<"createdOn", "datetime">> } }

\* the mapping that follows it: column "B", a column the file does not have,
\* or a second mapping onto the agent field
SecondMappings ==
    { [name |-> "B", targetField |-> "firstName", targetFieldType |-> "text"],
      [name |-> "Z", targetField |-> "lastName", targetFieldType |-> "text"],
      [name |-> "B", targetField |-> "agentUid", targetFieldType |-> "text"] }

RowMappingSets ==
    { <<m>> : m \in FirstMappings }
    \cup { <<m, n>> : m \in FirstMappings, n \in SecondMappings }

Jo == [id |-> "u1", email |-> <<"j", "o", "@", "b", ".", "c", "o">>]

Amy == [id |-> "u2", email |-> <<"A", "m", "y", "@", "b", ".", "c", "o">>]

UserSets == { <<Jo>>, <<Jo, Amy>> }

(***************************************************************************)
(* The field catalog                                                       *)
(***************************************************************************)
\* useContactFields: the six core fields seeded into an empty collection
CoreFields ==
    << [id |-> "firstName", type |-> "text", core |-> TRUE,
       label |-> <<"F", "i", "r", "s", "t", " ", "N", "a", "m", "e">>],
       [id |-> "lastName", type |-> "text", core |-> TRUE,
       label |-> <<"L", "a", "s", "t", " ", "N", "a", "m", "e">>],
       [id |-> "email", type |-> "email", core |-> TRUE,
       label |-> <<"E", "m", "a", "i", "l">>],
       [id |-> "phone", type |-> "phone", core |-> TRUE,
       label |-> <<"P", "h", "o", "n", "e">>],
       [id |-> "agentUid", type |-> "text", core |-> TRUE,
       label |-> <<"A", "s", "s", "i", "g", "n", "e", "d", " ", "A", "g", "e", "n", "t">>],
       [id |-> "createdOn", type |-> "datetime", core |-> TRUE,
       label |-> <<"C", "r", "e", "a", "t", "e", "d", " ", "D", "a", "t", "e">>] >>

\* fields added through createCustomField
CustomFields ==
    << [id |-> "score", type |-> "number", core |-> FALSE,
       label |-> <<"S", "c", "o", "r", "e">>],
       [id |-> "status", type |-> "checkbox", core |-> FALSE,
       label |-> <<"S", "t", "a", "t", "u", "s">>] >>

(***************************************************************************)
(* Specification of row normalization on its own                           *)
(***************************************************************************)
InitRows ==
    /\ pc = "rows"
    /\ headers = <<"A", "B">>
    /\ rows \in SeqsOf(RawRows, 1, MaxRawRows)
    /\ mappings \in RowMappingSets
    /\ users \in UserSets
    /\ processedContacts = <<>>
    /\ existingContacts = <<>>
    /\ analyzedAgainst = <<>>
    /\ previewSummary = NoSummary
    /\ importedPlan = NoSummary
    /\ issuedOps = <<>>
    /\ importResults = NoResults
    /\ nextId = 0
    /\ currentStep = "final"
    /\ detectedFields = <<>>
    /\ draftMappings = <<>>
    /\ isImporting = FALSE
    /\ modalResults = NoResults
    /\ validationErrors = <<>>
    /\ contactFields = CoreFields
    /\ fieldsData = Loaded(CoreFields)
    /\ lastCall = NoCall
    /\ tx = NoTx
    /\ uploadError = NULL
    /\ persisted = NoneWritten
    /\ guard = NoGuard

\* engine.processAllRowsForImport(fileData.headers, fileData.rows, mappings, users)
NormalizeRows ==
    /\ pc = "rows"
    /\ \E lenient \in BOOLEAN :
         processedContacts' = ProcessAllRowsForImport(headers, rows, mappings, users, lenient)
    /\ pc' = "rowsDone"
    /\ UNCHANGED hookVars
    /\ UNCHANGED <<headers, rows, mappings, users>>
    /\ UNCHANGED importVars
    /\ UNCHANGED wizardVars

NextRows == NormalizeRows

SpecRows == InitRows /\ [][NextRows]_vars

(***************************************************************************)
(* ImportPreview.runAnalysisProcess: validation of the processed contacts  *)
(***************************************************************************)
MissingRequired == "Missing required data (name, email, or phone)"

InvalidEmail == "Invalid email format"

\* contact[k] is truthy
Truthy(contact, k) == k \in DOMAIN contact /\ contact[k] # <<>>

\* the validation with the names left out of the required data
InvalidReasonKeysOnly(contact) ==
    IF ~(Truthy(contact, "email") \/ Truthy(contact, "phone"))
    THEN MissingRequired
    ELSE IF Truthy(contact, "email") /\ Trim(contact.email) # <<>>
            /\ ~EmailRegexTest(Trim(contact.email))
         THEN InvalidEmail
         ELSE "valid"

\* "valid" when the contact is valid, else the reason it is invalid for
InvalidReason(contact) ==
    IF ~(Truthy(contact, "firstName") \/ Truthy(contact, "lastName")
         \/ Truthy(contact, "email") \/ Truthy(contact, "phone"))
    THEN MissingRequired
    ELSE IF Truthy(contact, "email") /\ Trim(contact.email) # <<>>
            /\ ~EmailRegexTest(Trim(contact.email))
         THEN InvalidEmail
         ELSE "valid"

IsValidContact(contact) == InvalidReason(contact) = "valid"

\* the valid contacts, last row first
ValidContactsReversed(contacts) ==
    LET valid == SelectSeq(contacts, IsValidContact)
    IN  [i \in 1..Len(valid) |-> valid[Len(valid) + 1 - i]]

ValidContacts(contacts) == SelectSeq(contacts, IsValidContact)

IsInvalidContact(contact) == ~IsValidContact(contact)

InvalidContacts(contacts) ==
    LET bad == SelectSeq(contacts, IsInvalidContact)
    IN  [i \in 1..Len(bad) |-> [contact |-> bad[i], reason |-> InvalidReason(bad[i])]]

IsMappedKey(f) == f # ""

\* Object.values(mappings).map(m => m.targetField).filter(Boolean)
MappedKeys(ms) == SelectSeq([i \in 1..Len(ms) |-> ms[i].targetField], IsMappedKey)

(***************************************************************************)
(* useContacts.analyzeImport                                               *)
(***************************************************************************)
EmptyRow == "Empty row"

Identical == "Identical to existing"

\* the test without the trim
AllMappedBlankUntrimmed(contact, keys) ==
    \A i \in 1..Len(keys) : FieldOrEmpty(contact, keys[i]) = <<>>

\* mappedKeys.every(k => !(contact[k] ?? '').toString().trim())
AllMappedBlank(contact, keys) ==
    \A i \in 1..Len(keys) : Trim(FieldOrEmpty(contact, keys[i])) = <<>>

\* the predicate without its phone alternative
MatchesExistingEmailOnly(contact, ex) ==
    /\ Truthy(contact, "email")
    /\ Trim(contact.email) # <<>>
    /\ "email" \in DOMAIN ex
    /\ ToLowerCase(ex.email) = ToLowerCase(Trim(contact.email))

\* the predicate handed to existingContacts.find
MatchesExisting(contact, ex) ==
    \/ /\ Truthy(contact, "email")
       /\ Trim(contact.email) # <<>>
       /\ "email" \in DOMAIN ex
       /\ ToLowerCase(ex.email) = ToLowerCase(Trim(contact.email))
    \/ /\ Truthy(contact, "phone")
       /\ Trim(contact.phone) # <<>>
       /\ "phone" \in DOMAIN ex
       /\ DigitsOnly(ex.phone) = DigitsOnly(contact.phone)

\* existingContacts.find: index of the first match, 0 when there is none
RECURSIVE FindExisting(_, _, _)
FindExisting(contact, existing, i) ==
    IF i > Len(existing) THEN 0
    ELSE IF MatchesExisting(contact, existing[i]) THEN i
    ELSE FindExisting(contact, existing, i + 1)

\* the comparison without the trim of the existing value
IdenticalOnKeysUntrimmed(contact, ex, keys) ==
    \A i \in 1..Len(keys) :
        Trim(FieldOrEmpty(contact, keys[i])) = FieldOrEmpty(ex, keys[i])

\* mappedKeys.every(k => trim(contact[k]) === trim(existing[k]))
IdenticalOnKeys(contact, ex, keys) ==
    \A i \in 1..Len(keys) :
        Trim(FieldOrEmpty(contact, keys[i])) = Trim(FieldOrEmpty(ex, keys[i]))

EmptyPlan == [willCreate |-> <<>>, willMerge |-> <<>>, willSkip |-> <<>>]

\* the loop body with the identical contact left out of willSkip
AnalyzeOneDropsIdentical(plan, contact, existing, keys) ==
    IF AllMappedBlank(contact, keys)
    THEN [plan EXCEPT !.willSkip = Append(@, [contact |-> contact, reason |-> EmptyRow])]
    ELSE LET found == FindExisting(contact, existing, 1) IN
         IF found = 0
         THEN [plan EXCEPT !.willCreate = Append(@, contact)]
         ELSE IF IdenticalOnKeys(contact, existing[found], keys)
              THEN plan
              ELSE [plan EXCEPT !.willMerge =
                        Append(@, [contact |-> contact, existing |-> existing[found]])]

\* one iteration of the loop over contactsData
AnalyzeOne(plan, contact, existing, keys) ==
    IF AllMappedBlank(contact, keys)
    THEN [plan EXCEPT !.willSkip = Append(@, [contact |-> contact, reason |-> EmptyRow])]
    ELSE LET found == FindExisting(contact, existing, 1) IN
         IF found = 0
         THEN [plan EXCEPT !.willCreate = Append(@, contact)]
         ELSE IF IdenticalOnKeys(contact, existing[found], keys)
              THEN [plan EXCEPT !.willSkip =
                        Append(@, [contact |-> contact, reason |-> Identical])]
              ELSE [plan EXCEPT !.willMerge =
                        Append(@, [contact |-> contact, existing |-> existing[found]])]

RECURSIVE AnalyzeFrom(_, _, _, _)
AnalyzeFrom(plan, contactsData, existing, keys) ==
    IF contactsData = <<>> THEN plan
    ELSE AnalyzeFrom(AnalyzeOne(plan, Head(contactsData), existing, keys),
                     Tail(contactsData), existing, keys)

AnalyzeImport(contactsData, existing, keys) ==
    AnalyzeFrom(EmptyPlan, contactsData, existing, keys)

\* the PreviewSummary runAnalysisProcess stores
BuildSummary(processed, existing, ms) ==
    LET plan    == AnalyzeImport(ValidContacts(processed), existing, MappedKeys(ms))
        invalid == InvalidContacts(processed)
    IN  [willCreate      |-> plan.willCreate,
         willMerge       |-> plan.willMerge,
         willSkip        |-> plan.willSkip,
         errors          |-> [i \in 1..Len(invalid) |-> invalid[i].reason],
         invalidContacts |-> invalid]

(***************************************************************************)
(* useContacts.importContacts                                              *)
(***************************************************************************)
\* the condition without its test of newValue for emptiness
OverwritesBlankToo(contact, existing, key) ==
    Trim(contact[key]) # Trim(FieldOrEmpty(existing, key))

\* the condition under which merged[key] = newValue is executed
Overwrites(contact, existing, key) ==
    LET newValue == Trim(contact[key])
    IN  newValue # <<>> /\ newValue # Trim(FieldOrEmpty(existing, key))

\* the merge started from an empty record in place of { ...existing }
MergeContactCandidateOnly(contact, existing) ==
    LET written == { k \in DOMAIN contact : Overwrites(contact, existing, k) }
    IN  [k \in {"id"} \cup written |->
            IF k \in written THEN Trim(contact[k]) ELSE existing[k]]

\* const merged = { ...existing }; Object.keys(contact).forEach(...)
MergeContact(contact, existing) ==
    LET written == { k \in DOMAIN contact : Overwrites(contact, existing, k) }
    IN  [k \in DOMAIN existing \cup written |->
            IF k \in written THEN Trim(contact[k]) ELSE existing[k]]

AddOp(contact) == [type |-> "add", id |-> NULL, data |-> contact]

\* the merged record written as a new document
MergeOpAsAdd(pair) ==
    [type |-> "add", id |-> NULL,
     data |-> MergeContact(pair.contact, pair.existing)]

\* { type: 'update', id: existing.id, data: merged }
MergeOp(pair) ==
    [type |-> "update", id |-> pair.existing.id,
     data |-> MergeContact(pair.contact, pair.existing)]

AddOps(contacts) == [i \in 1..Len(contacts) |-> AddOp(contacts[i])]

MergeOps(pairs) == [i \in 1..Len(pairs) |-> MergeOp(pairs[i])]

\* for (let i = 0; i < seq.length; i += size) seq.slice(i, i + size)
Chunks(seq, size) ==
    [c \in 1..((Len(seq) + size - 1) \div size) |->
        SubSeq(seq, (c - 1) * size + 1,
               IF c * size < Len(seq) THEN c * size ELSE Len(seq))]

(***************************************************************************)
(* The document store behind useFirestore: batch.set / batch.update /      *)
(* transaction.set / transaction.update                                    *)
(***************************************************************************)
ServerTimestamp == <<"serverTimestamp">>

NewDocId(n) == <<"doc" \o ToString(n)>>

HasDoc(store, id) == \E i \in 1..Len(store) : store[i].id = id

\* the fields of data replace those of doc, the others stay
Overlay(doc, data) ==
    [k \in DOMAIN doc \cup DOMAIN data |-> IF k \in DOMAIN data THEN data[k] ELSE doc[k]]

\* store and id counter after one write; stamped: batch.update adds updatedAt
ApplyWrite(st, op, stamped) ==
    IF op.type = "add"
    THEN [store  |-> Append(st.store,
                            Overlay([id |-> NewDocId(st.nextId + 1)], op.data)),
          nextId |-> st.nextId + 1]
    ELSE [store  |-> [i \in 1..Len(st.store) |->
                         IF st.store[i].id = op.id
                         THEN Overlay(st.store[i],
                                  IF stamped
                                  THEN SetField(op.data, "updatedAt", ServerTimestamp)
                                  ELSE op.data)
                         ELSE st.store[i]],
          nextId |-> st.nextId]

RECURSIVE ApplyWrites(_, _, _)
ApplyWrites(st, ops, stamped) ==
    IF ops = <<>> THEN st
    ELSE ApplyWrites(ApplyWrite(st, Head(ops), stamped), Tail(ops), stamped)

\* an update of a document that does not exist makes the commit fail
CanCommit(store, ops) ==
    \A i \in 1..Len(ops) : ops[i].type = "update" => HasDoc(store, ops[i].id)

AtomicLimit == 500

DefaultChunkSize == 100

DefaultOptions == [atomic |-> FALSE, useTransaction |-> FALSE, chunkSize |-> DefaultChunkSize]

AtomicOptions == [atomic |-> TRUE, useTransaction |-> TRUE, chunkSize |-> DefaultChunkSize]

\* one pass of a chunk loop of importContacts: st carries the store, the id
\* counter, the count of written contacts and the errors; chunk c fails when
\* c + base is in failed or its commit cannot succeed.  awaited: the await on
\* what batchWrite returned waits for the commit and throws its error;
\* otherwise the chunk is counted and no error is caught
RECURSIVE ImportChunks(_, _, _, _, _, _, _, _)
ImportChunks(st, chunks, c, base, failed, stamped, failure, awaited) ==
    IF c > Len(chunks) THEN st
    ELSE LET ok   == (c + base) \notin failed /\ CanCommit(st.store, chunks[c])
             done == ApplyWrites([store |-> st.store, nextId |-> st.nextId],
                                 chunks[c], stamped)
             next == [store  |-> IF ok THEN done.store ELSE st.store,
                      nextId |-> IF ok THEN done.nextId ELSE st.nextId,
                      written |-> IF ok THEN st.written + Len(chunks[c])
                                  ELSE st.written,
                      count  |-> IF ok \/ ~awaited
                                 THEN st.count + Len(chunks[c]) ELSE st.count,
                      errors |-> IF ok \/ ~awaited
                                 THEN st.errors ELSE Append(st.errors, failure)]
         IN  ImportChunks(next, chunks, c + 1, base, failed, stamped, failure,
                          awaited)

\* importContacts(actions, options) against the store; failed names the
\* commits that are rejected (1 = the transaction in atomic mode, else the
\* create chunks followed by the merge chunks).  batchWrite and
\* atomicBatchWrite return what toast.promise returns: awaited tells whether
\* awaiting that value waits for the write and throws when it fails, or
\* yields at once a handle whose unwrap() would (as line 283 takes it)
ImportContacts(actions, options, store, ids, failed, awaited) ==
    LET totalOperations == Len(actions.willCreate) + Len(actions.willMerge)
        adds   == AddOps(actions.willCreate)
        merges == MergeOps(actions.willMerge)
    IN  IF options.atomic /\ totalOperations <= AtomicLimit
        THEN LET ok   == 1 \notin failed /\ CanCommit(store, adds \o merges)
                 seen == ok \/ ~awaited
                 done == ApplyWrites([store |-> store, nextId |-> ids],
                                     adds \o merges, FALSE)
             IN  [store   |-> IF ok THEN done.store ELSE store,
                  nextId  |-> IF ok THEN done.nextId ELSE ids,
                  ops     |-> adds \o merges,
                  written |-> [created |-> IF ok THEN Len(adds) ELSE 0,
                               updated |-> IF ok THEN Len(merges) ELSE 0],
                  results |-> [created |-> IF seen THEN Len(actions.willCreate) ELSE 0,
                               updated |-> IF seen THEN Len(actions.willMerge) ELSE 0,
                               skipped |-> Len(actions.willSkip),
                               errors  |-> IF seen THEN <<>>
                                           ELSE <<"Atomic import failed">>,
                               totalOperations |-> totalOperations]]
        ELSE LET createChunks == Chunks(adds, options.chunkSize)
                 mergeChunks  == Chunks(merges, options.chunkSize)
                 stamped      == ~options.useTransaction
                 afterCreate  == ImportChunks(
                                     [store |-> store, nextId |-> ids,
                                      written |-> 0, count |-> 0,
                                      errors |-> <<>>],
                                     createChunks, 1, 0, failed, stamped,
                                     "Batch create failed", awaited)
                 afterMerge   == ImportChunks(
                                     [afterCreate EXCEPT !.count = 0, !.written = 0],
                                     mergeChunks, 1, Len(createChunks), failed,
                                     stamped, "Batch merge failed", awaited)
             IN  [store   |-> afterMerge.store,
                  nextId  |-> afterMerge.nextId,
                  ops     |-> adds \o merges,
                  written |-> [created |-> afterCreate.written,
                               updated |-> afterMerge.written],
                  results |-> [created |-> afterCreate.count,
                               updated |-> afterMerge.count,
                               skipped |-> Len(actions.willSkip),
                               errors  |-> afterMerge.errors,
                               totalOperations |-> totalOperations]]

\* number of commits importContacts attempts
CommitCount(actions, options) ==
    IF options.atomic /\ Len(actions.willCreate) + Len(actions.willMerge) <= AtomicLimit
    THEN 1
    ELSE Len(Chunks(actions.willCreate, options.chunkSize))
         + Len(Chunks(actions.willMerge, options.chunkSize))

(***************************************************************************)
(* Inputs of the import: a file of three columns, the confirmed mappings,  *)
(* the contacts already stored                                             *)
(***************************************************************************)
MaxRows == 2

MaxExisting == 2

FileHeaders == <<"Email", "Phone", "Name">>

JoMail == <<"j", "o", "@", "b", ".", "c", "o">>

JoMailMixed == <<"J", "o", "@", "B", ".", "c", "o">>

FileRows ==
    { << JoMailMixed, <<"(", "1", ")", " ", "2", "-", "3">>, <<"J", "o">> >>,
      << JoMail, <<"a", "b", "c">>, <<"J", "o">> >>,
      << <<>>, <<"1", "-", "2", "3">>, <<"A", "n", "n">> >>,
      << <<>>, <<>>, <<"B", "o", "b">> >>,
      << <<"n", "o", "@", "b">>, <<>>, <<"B", "o", "b">> >>,
      << <<>>, <<"a", "b", "c">>, <<>> >>,
      << <<" ">>, <<>> >> }

\* what the wizard builds (no targetFieldType, hence the default branch of
\* processFieldValue), the same with value types, and one without the phone
ImportMappings ==
    { << [name |-> "Email", targetField |-> "email", targetFieldType |-> "text"],
         [name |-> "Phone", targetField |-> "phone", targetFieldType |-> "text"],
         [name |-> "Name", targetField |-> "firstName", targetFieldType |-> "text"] >>,
      << [name |-> "Email", targetField |-> "email", targetFieldType |-> "email"],
         [name |-> "Phone", targetField |-> "phone", targetFieldType |-> "phone"],
         [name |-> "Name", targetField |-> "firstName", targetFieldType |-> "text"] >>,
      << [name |-> "Email", targetField |-> "email", targetFieldType |-> "text"],
         [name |-> "Name", targetField |-> "firstName", targetFieldType |-> "text"] >> }

StoredContacts ==
    { [id |-> <<"c1">>, email |-> JoMail, phone |-> <<"1", "2", "3">>,
       firstName |-> <<" ", "J", "o">>],
      [id |-> <<"c2">>, email |-> <<"J", "O", "@", "b", ".", "c", "o">>,
       firstName |-> <<"J", "o", "e">>],
      [id |-> <<"c3">>, phone |-> <<"1", " ", "2", "3">>, firstName |-> <<"A", "n", "n">>,
       lastName |-> <<"L", "e", "e">>],
      [id |-> <<"c4">>, phone |-> <<"n", "/", "a">>, firstName |-> <<"B", "o", "b">>] }

\* sequences without repetition over S of length 0..n
DistinctSeqs(S, n) ==
    { q \in SeqsOf(S, 0, n) : \A i, j \in 1..Len(q) : i # j => q[i] # q[j] }

(***************************************************************************)
(* Specification of the import: ImportPreview over useContacts             *)
(***************************************************************************)
Init ==
    /\ pc = "mounted"
    /\ headers = FileHeaders
    /\ rows \in SeqsOf(FileRows, 1, MaxRows)
    /\ mappings \in ImportMappings
    /\ users = <<Jo>>
    /\ processedContacts = <<>>
    /\ existingContacts \in DistinctSeqs(StoredContacts, MaxExisting)
    /\ analyzedAgainst = <<>>
    /\ previewSummary = NoSummary
    /\ importedPlan = NoSummary
    /\ issuedOps = <<>>
    /\ importResults = NoResults
    /\ nextId = 0
    /\ currentStep = "final"
    /\ detectedFields = <<>>
    /\ draftMappings = <<>>
    /\ isImporting = FALSE
    /\ modalResults = NoResults
    /\ validationErrors = <<>>
    /\ contactFields = CoreFields
    /\ fieldsData = Loaded(CoreFields)
    /\ lastCall = NoCall
    /\ tx = NoTx
    /\ uploadError = NULL
    /\ persisted = NoneWritten
    /\ guard = NoGuard

\* ImportPreview's effect: runAnalysisProcess, run when the component mounts
\* and again whenever the contacts snapshot changes
RunAnalysisProcess ==
    /\ pc \in {"mounted", "snapshot"}
    /\ Len(users) > 0
    /\ Len(fieldsData.data) > 0
    /\ \E lenient \in BOOLEAN :
         LET processed == ProcessAllRowsForImport(headers, rows, mappings, users, lenient)
         IN  /\ processedContacts' = processed
             /\ previewSummary' = BuildSummary(processed, existingContacts, mappings)
    /\ analyzedAgainst' = existingContacts
    /\ pc' = IF pc = "mounted" THEN "preview" ELSE "reanalyzed"
    /\ UNCHANGED hookVars
    /\ UNCHANGED <<headers, rows, mappings, users, existingContacts, importedPlan,
                   issuedOps, importResults, nextId>>
    /\ UNCHANGED wizardVars

\* await baseHook.batchWrite(...) and await baseHook.atomicBatchWrite(...):
\* what these return is what toast.promise returned, which every caller that
\* reads it takes to be the toast handle (await res.unwrap() in
\* handleActualImport, await chunkResults.unwrap() in batchWrite); awaiting
\* the handle neither waits for the write nor throws its error
AwaitSettles == FALSE

\* handleActualImport from its call of importContacts to onImportComplete
ImportAndReport(options) ==
    /\ previewSummary # NoSummary
    /\ modalResults = NoResults
    /\ \E failed \in SUBSET (1..CommitCount(previewSummary, options)) :
         LET out == ImportContacts(previewSummary, options, existingContacts,
                                   nextId, failed, AwaitSettles)
         IN  /\ existingContacts' = out.store
             /\ nextId' = out.nextId
             /\ issuedOps' = out.ops
             /\ importResults' = out.results
             /\ persisted' = out.written
             /\ modalResults' =
                    [created |-> out.results.created,
                     updated |-> out.results.updated,
                     skipped |-> out.results.skipped + Len(previewSummary.errors),
                     errors  |-> previewSummary.errors \o out.results.errors]
             /\ pc' = IF out.store # existingContacts THEN "snapshot" ELSE "results"
    /\ importedPlan' = previewSummary
    /\ isImporting' = FALSE
    /\ UNCHANGED <<contactFields, fieldsData, lastCall, tx, uploadError, guard>>
    /\ UNCHANGED <<headers, rows, mappings, users, processedContacts,
                   analyzedAgainst, previewSummary, currentStep, detectedFields,
                   draftMappings, validationErrors>>

\* the import of the previewed plan with the given options
RunImport(options) ==
    /\ pc = "preview"
    /\ ImportAndReport(options)

\* ImportPreview.handleActualImport: importContacts(previewSummary, callback),
\* the callback taking the place of the options
HandleActualImport == RunImport(DefaultOptions)

\* useContacts.atomicImportContacts(previewSummary)
AtomicImportContacts ==
    /\ pc = "preview"
    /\ previewSummary # NoSummary
    /\ Len(previewSummary.willCreate) + Len(previewSummary.willMerge) <= AtomicLimit
    /\ RunImport(AtomicOptions)

Next == RunAnalysisProcess \/ HandleActualImport \/ AtomicImportContacts

Spec == Init /\ [][Next]_vars

(***************************************************************************)
(* Mapping validation                                                      *)
(***************************************************************************)
\* FieldMappingEngine.validateMappings: targets that occur a second time
DuplicateTargets(ms) ==
    { ms[i].targetField : i \in { n \in 1..Len(ms) :
                                    \E m \in 1..(n - 1) : ms[m].targetField = ms[n].targetField } }

EngineValidateMappings(ms) ==
    [valid  |-> DuplicateTargets(ms) = {},
     errors |-> IF DuplicateTargets(ms) = {} THEN <<>>
                ELSE <<"Duplicate mappings found">>]

\* ImportModal.validateMappings: the agent e-mails are only reported by a
\* toast; the error list it returns is never added to
ModalValidateMappings(ms) == [valid |-> TRUE, errors |-> <<>>]

(***************************************************************************)
(* The import wizard: ImportModal, FileUpload, FieldDetection, FieldMapping *)
(***************************************************************************)
WizardHeaders == <<"Email", "Name">>

WizardFiles ==
    { << << JoMail, <<"J", "o", "e">> >> >>,
      << << <<>>, <<"B", "o", "b">> >>, << JoMailMixed, <<"J", "o">> >> >> }

Detected(name, target, confidence) ==
    [name |-> name, suggestedMapping |-> target, confidence |-> confidence]

\* results of detectFields for the two headers; <<>> is what FileUpload
\* passes on when detection threw
WizardDetections ==
    { <<>> }
    \cup { << Detected("Email", "email", 95), Detected("Name", n[1], n[2]) >> :
            n \in { <<"firstName", 70>>, <<"email", 60>>, <<"firstName", 45>> } }

MappingTargets == {"email", "firstName"}

\* the mappings FieldMapping starts from: suggestions of confidence above 50
IsConfident(field) == field.suggestedMapping # "" /\ field.confidence > 50

InitialMappings(fields) ==
    LET kept == SelectSeq(fields, IsConfident)
    IN  [i \in 1..Len(kept) |->
            [name |-> kept[i].name, targetField |-> kept[i].suggestedMapping,
             targetFieldType |-> "undefined"]]

HasMapping(ms, name) == \E i \in 1..Len(ms) : ms[i].name = name

\* { ...prev, [sourceField]: mapping }: a present key keeps its place
PutMapping(ms, mapping) ==
    IF HasMapping(ms, mapping.name)
    THEN [i \in 1..Len(ms) |-> IF ms[i].name = mapping.name THEN mapping ELSE ms[i]]
    ELSE Append(ms, mapping)

\* delete newMappings[sourceField]
DeleteMapping(ms, name) ==
    LET Other(m) == m.name # name IN SelectSeq(ms, Other)

InitWizard ==
    /\ pc = "wizard"
    /\ headers = <<>>
    /\ rows = <<>>
    /\ mappings = <<>>
    /\ users = <<Jo>>
    /\ processedContacts = <<>>
    /\ existingContacts \in DistinctSeqs(StoredContacts, 1)
    /\ analyzedAgainst = <<>>
    /\ previewSummary = NoSummary
    /\ importedPlan = NoSummary
    /\ issuedOps = <<>>
    /\ importResults = NoResults
    /\ nextId = 0
    /\ currentStep = "upload"
    /\ detectedFields = <<>>
    /\ draftMappings = <<>>
    /\ isImporting = FALSE
    /\ modalResults = NoResults
    /\ validationErrors = <<>>
    /\ contactFields = CoreFields
    /\ fieldsData = Loaded(CoreFields)
    /\ lastCall = NoCall
    /\ tx = NoTx
    /\ uploadError = NULL
    /\ persisted = NoneWritten
    /\ guard = NoGuard

\* FileUpload.onDrop, then ImportModal.handleFileUploaded and
\* handleFieldsDetected
HandleFieldsDetected ==
    /\ pc = "wizard"
    /\ currentStep = "upload"
    /\ headers' = WizardHeaders
    /\ rows' \in WizardFiles
    /\ detectedFields' \in WizardDetections
    /\ currentStep' = "detection"
    /\ UNCHANGED hookVars
    /\ UNCHANGED <<pc, mappings, users, processedContacts, draftMappings,
                   isImporting, modalResults, validationErrors>>
    /\ UNCHANGED importVars

\* FieldDetection.handleNext; FieldMapping mounts and takes the suggestions
FieldDetectionNext ==
    /\ pc = "wizard"
    /\ currentStep = "detection"
    /\ currentStep' = "mapping"
    /\ draftMappings' = InitialMappings(detectedFields)
    /\ UNCHANGED hookVars
    /\ UNCHANGED <<pc, headers, rows, mappings, users, processedContacts,
                   detectedFields, isImporting, modalResults, validationErrors>>
    /\ UNCHANGED importVars

\* FieldMapping.handleMappingChange(sourceField, targetField)
HandleMappingChange ==
    /\ pc = "wizard"
    /\ currentStep = "mapping"
    /\ \E i \in 1..Len(detectedFields) : \E target \in MappingTargets \cup {"skip"} :
         draftMappings' =
            IF target = "skip"
            THEN DeleteMapping(draftMappings, detectedFields[i].name)
            ELSE PutMapping(draftMappings,
                            [name |-> detectedFields[i].name, targetField |-> target,
                             targetFieldType |-> "undefined"])
    /\ UNCHANGED hookVars
    /\ UNCHANGED <<pc, headers, rows, mappings, users, processedContacts,
                   currentStep, detectedFields, isImporting, modalResults,
                   validationErrors>>
    /\ UNCHANGED importVars

\* FieldMapping.handleNext -> ImportModal.handleMappingComplete; ImportPreview
\* mounts when the step becomes 'final'
HandleMappingComplete ==
    /\ pc = "wizard"
    /\ currentStep = "mapping"
    /\ Len(draftMappings) > 0
    /\ mappings' = draftMappings
    /\ LET validation == ModalValidateMappings(mappings)
       IN  /\ validationErrors' = validation.errors
           /\ currentStep' = IF validation.valid THEN "final" ELSE currentStep
           /\ pc' = IF validation.valid THEN "mounted" ELSE pc
    /\ UNCHANGED hookVars
    /\ UNCHANGED <<headers, rows, users, processedContacts, detectedFields,
                   draftMappings, isImporting, modalResults>>
    /\ UNCHANGED importVars

\* ImportModal.handlePreviousStep; leaving 'final' unmounts ImportPreview
HandlePreviousStep ==
    /\ modalResults = NoResults
    /\ currentStep \in {"mapping", "final", "detection"}
    /\ currentStep' = CASE currentStep = "mapping"   -> "detection"
                        [] currentStep = "final"     -> "mapping"
                        [] currentStep = "detection" -> "upload"
    /\ detectedFields' = IF currentStep = "detection" THEN <<>> ELSE detectedFields
    /\ mappings' = IF currentStep = "detection" THEN <<>> ELSE mappings
    /\ draftMappings' = IF currentStep = "final" THEN InitialMappings(detectedFields)
                        ELSE draftMappings
    /\ pc' = "wizard"
    /\ previewSummary' = IF currentStep = "final" THEN NoSummary ELSE previewSummary
    /\ processedContacts' = IF currentStep = "final" THEN <<>> ELSE processedContacts
    /\ UNCHANGED hookVars
    /\ UNCHANGED <<headers, rows, users, existingContacts, analyzedAgainst,
                   importedPlan, issuedOps, importResults, nextId, isImporting,
                   modalResults, validationErrors>>

\* handleClose without the test of isImporting
HandleCloseAlways ==
    /\ pc # "closed"
    /\ currentStep' = "upload"
    /\ headers' = <<>>
    /\ rows' = <<>>
    /\ detectedFields' = <<>>
    /\ mappings' = <<>>
    /\ modalResults' = NoResults
    /\ isImporting' = FALSE
    /\ pc' = "closed"
    /\ previewSummary' = NoSummary
    /\ processedContacts' = <<>>
    /\ draftMappings' = <<>>
    /\ UNCHANGED hookVars
    /\ UNCHANGED <<users, existingContacts, analyzedAgainst, importedPlan, issuedOps,
                   importResults, nextId, validationErrors>>

\* ImportModal.handleClose
HandleClose ==
    /\ pc # "closed"
    /\ IF ~isImporting
       THEN /\ currentStep' = "upload"
            /\ headers' = <<>>
            /\ rows' = <<>>
            /\ detectedFields' = <<>>
            /\ mappings' = <<>>
            /\ modalResults' = NoResults
            /\ isImporting' = FALSE
            /\ pc' = "closed"
            /\ previewSummary' = NoSummary
            /\ processedContacts' = <<>>
            /\ draftMappings' = <<>>
       ELSE UNCHANGED <<currentStep, headers, rows, detectedFields, mappings,
                        modalResults, isImporting, pc, previewSummary,
                        processedContacts, draftMappings>>
    /\ UNCHANGED hookVars
    /\ UNCHANGED <<users, existingContacts, analyzedAgainst, importedPlan, issuedOps,
                   importResults, nextId, validationErrors>>

NextWizard ==
    \/ HandleFieldsDetected
    \/ FieldDetectionNext
    \/ HandleMappingChange
    \/ HandleMappingComplete
    \/ HandlePreviousStep
    \/ HandleClose
    \/ RunAnalysisProcess
    \/ HandleActualImport

SpecWizard == InitWizard /\ [][NextWizard]_vars

(***************************************************************************)
(* The wizard with the import in progress: handleActualImport up to its    *)
(* await, and from there on                                                *)
(***************************************************************************)
\* handleActualImport up to await importContacts(...): setIsImporting(true)
BeginImport ==
    /\ pc = "preview"
    /\ previewSummary # NoSummary
    /\ modalResults = NoResults
    /\ ~isImporting
    /\ isImporting' = TRUE
    /\ pc' = "importing"
    /\ UNCHANGED hookVars
    /\ UNCHANGED importVars
    /\ UNCHANGED <<headers, rows, mappings, users, processedContacts, currentStep,
                   detectedFields, draftMappings, modalResults, validationErrors>>

\* the rest of handleActualImport, once res.unwrap() has settled
CompleteImport ==
    /\ pc = "importing"
    /\ ImportAndReport(DefaultOptions)

\* the Previous button of ImportPreview is disabled while isImporting
PreviousStep == ~isImporting /\ HandlePreviousStep

NextModal ==
    \/ HandleFieldsDetected
    \/ FieldDetectionNext
    \/ HandleMappingChange
    \/ HandleMappingComplete
    \/ PreviousStep
    \/ HandleClose
    \/ RunAnalysisProcess
    \/ BeginImport
    \/ CompleteImport

SpecModal == InitWizard /\ [][NextModal]_vars

(***************************************************************************)
(* Field detection: FieldMappingEngine.detectFields and its scores         *)
(***************************************************************************)
LowerLetters ==
    {"a", "b", "c", "d", "e", "f", "g", "h", "i", "j", "k", "l", "m",
     "n", "o", "p", "q", "r", "s", "t", "u", "v", "w", "x", "y", "z"}

IsLetter(ch) == ch \in LowerLetters \/ ch \in DOMAIN UpperToLower

\* \w
IsWordChar(ch) == IsLetter(ch) \/ IsDigit(ch) \/ ch = "_"

\* s.replace(/\s+/g, ' ')
RECURSIVE CollapseSpaces(_)
CollapseSpaces(s) ==
    IF s = <<>> THEN <<>>
    ELSE IF IsSpace(Head(s))
         THEN <<" ">> \o CollapseSpaces(TrimStart(s))
         ELSE <<Head(s)>> \o CollapseSpaces(Tail(s))

\* FieldMappingEngine.normalizeHeader
NormalizeHeader(header) ==
    LET lower    == ToLowerCase(header)
        replaced == [i \in 1..Len(lower) |->
                        IF IsWordChar(lower[i]) \/ IsSpace(lower[i]) THEN lower[i] ELSE " "]
    IN  Trim(CollapseSpaces(replaced))

IsWordSeparator(ch) == IsSpace(ch) \/ ch \in {"_", "-"}

\* s.split(/[\s_-]+/): the pieces between the runs of separators, the empty
\* pieces at either end included
RECURSIVE SplitFrom(_, _, _)
SplitFrom(s, piece, inRun) ==
    IF s = <<>> THEN <<piece>>
    ELSE IF IsWordSeparator(Head(s))
         THEN IF inRun THEN SplitFrom(Tail(s), piece, TRUE)
              ELSE <<piece>> \o SplitFrom(Tail(s), <<>>, TRUE)
         ELSE SplitFrom(Tail(s), Append(piece, Head(s)), FALSE)

SplitWords(s) == SplitFrom(s, <<>>, FALSE)

\* hay.includes(needle)
Includes(hay, needle) ==
    \E i \in 0..(Len(hay) - Len(needle)) : SubSeq(hay, i + 1, i + Len(needle)) = needle

\* the characters of the field ids
FieldIdText ==
    [firstName |-> <<"f", "i", "r", "s", "t", "N", "a", "m", "e">>,
     lastName  |-> <<"l", "a", "s", "t", "N", "a", "m", "e">>,
     email     |-> <<"e", "m", "a", "i", "l">>,
     phone     |-> <<"p", "h", "o", "n", "e">>,
     agentUid  |-> <<"a", "g", "e", "n", "t", "U", "i", "d">>,
     createdOn |-> <<"c", "r", "e", "a", "t", "e", "d", "O", "n">>,
     score     |-> <<"s", "c", "o", "r", "e">>,
     status    |-> <<"s", "t", "a", "t", "u", "s">>,
     first_name |-> <<"f", "i", "r", "s", "t", "_", "n", "a", "m", "e">>,
     lead_score |-> <<"l", "e", "a", "d", "_", "s", "c", "o", "r", "e">>]

IdText(fieldId) == FieldIdText[fieldId]

\* FieldMappingEngine.getFieldKeywords, for the fields of the catalogs below
FieldKeywords(fieldId) ==
    CASE fieldId = "firstName" ->
        << <<"f", "i", "r", "s", "t">>,
           <<"f", "n", "a", "m", "e">>,
           <<"f", "i", "r", "s", "t", "n", "a", "m", "e">>,
           <<"g", "i", "v", "e", "n">>,
           <<"f", "o", "r", "e", "n", "a", "m", "e">>,
           <<"c", "h", "r", "i", "s", "t", "i", "a", "n">> >>
      [] fieldId = "lastName" ->
        << <<"l", "a", "s", "t">>,
           <<"l", "n", "a", "m", "e">>,
           <<"l", "a", "s", "t", "n", "a", "m", "e">>,
           <<"s", "u", "r", "n", "a", "m", "e">>,
           <<"f", "a", "m", "i", "l", "y">>,
           <<"s", "u", "r">> >>
      [] fieldId = "email" ->
        << <<"e", "m", "a", "i", "l">>,
           <<"m", "a", "i", "l">>,
           <<"e", "-", "m", "a", "i", "l">>,
           <<"e", "m", "a", "i", "l", "a", "d", "d", "r", "e", "s", "s">>,
           <<"e", "m", "a", "i", "l", "_", "a", "d", "d", "r", "e", "s", "s">>,
           <<"e", "l", "e", "c", "t", "r", "o", "n", "i", "c">> >>
      [] fieldId = "phone" ->
        << <<"p", "h", "o", "n", "e">>,
           <<"t", "e", "l">>,
           <<"t", "e", "l", "e", "p", "h", "o", "n", "e">>,
           <<"m", "o", "b", "i", "l", "e">>,
           <<"c", "e", "l", "l">>,
           <<"c", "o", "n", "t", "a", "c", "t">>,
           <<"n", "u", "m", "b", "e", "r">>,
           <<"c", "e", "l", "l", "u", "l", "a", "r">> >>
      [] fieldId = "agentUid" ->
        << <<"a", "g", "e", "n", "t">>,
           <<"a", "s", "s", "i", "g", "n", "e", "d">>,
           <<"o", "w", "n", "e", "r">>,
           <<"r", "e", "p">>,
           <<"r", "e", "p", "r", "e", "s", "e", "n", "t", "a", "t", "i", "v", "e">>,
           <<"s", "a", "l", "e", "s">>,
           <<"m", "a", "n", "a", "g", "e", "r">> >>
      [] fieldId = "createdOn" ->
        << <<"c", "r", "e", "a", "t", "e", "d">>,
           <<"c", "r", "e", "a", "t", "e", "d", "o", "n">>,
           <<"d", "a", "t", "e">>,
           <<"a", "d", "d", "e", "d">>,
           <<"t", "i", "m", "e", "s", "t", "a", "m", "p">>,
           <<"t", "i", "m", "e">>,
           <<"i", "m", "p", "o", "r", "t", "e", "d">> >>
      [] fieldId = "status" ->
        << <<"s", "t", "a", "t", "u", "s">>,
           <<"s", "t", "a", "t", "e">>,
           <<"c", "o", "n", "d", "i", "t", "i", "o", "n">>,
           <<"s", "t", "a", "g", "e">> >>
      [] OTHER -> <<>>

\* FieldMappingEngine.calculateLegacySimilarity
LegacyWordScore(headerWord, fieldWords, fieldId) ==
    (IF \E i \in 1..Len(fieldWords) :
            Includes(fieldWords[i], headerWord) \/ Includes(headerWord, fieldWords[i])
     THEN 10 ELSE 0)
    + (IF Includes(fieldId, headerWord) \/ Includes(headerWord, fieldId) THEN 8 ELSE 0)

RECURSIVE SumLegacyWords(_, _, _)
SumLegacyWords(headerWords, fieldWords, fieldId) ==
    IF headerWords = <<>> THEN 0
    ELSE LegacyWordScore(Head(headerWords), fieldWords, fieldId)
         + SumLegacyWords(Tail(headerWords), fieldWords, fieldId)

Min(a, b) == IF a < b THEN a ELSE b

LegacyCap == 20

CalculateLegacySimilarity(header, field) ==
    LET headerWords == SplitWords(ToLowerCase(header))
        fieldWords  == SplitWords(ToLowerCase(field.label))
        fieldId     == ToLowerCase(IdText(field.id))
        exact       == IF header = ToLowerCase(field.label) \/ header = fieldId
                       THEN 25 ELSE 0
    IN  Min(exact + SumLegacyWords(headerWords, fieldWords, fieldId), LegacyCap)

\* FieldMappingEngine.calculateKeywordBonus
KeywordCap == 30

CalculateKeywordBonus(header, fieldId) ==
    LET keywords    == FieldKeywords(fieldId)
        headerWords == SplitWords(header)
        hits == { k \in 1..Len(keywords) :
                    \E w \in 1..Len(headerWords) :
                        Includes(headerWords[w], keywords[k])
                        \/ Includes(keywords[k], headerWords[w]) }
    IN  Min(15 * Cardinality(hits), KeywordCap)

(***************************************************************************)
(* Field detection: the value patterns of fieldPatterns and                *)
(* matchesFieldType                                                        *)
(***************************************************************************)
AllDigits(s) == \A i \in 1..Len(s) : IsDigit(s[i])

\* [a-zA-Z0-9._%+-]
IsStrictLocalChar(ch) == IsLetter(ch) \/ IsDigit(ch) \/ ch \in {".", "_", "%", "+", "-"}

\* [a-zA-Z0-9.-]
IsStrictDomainChar(ch) == IsLetter(ch) \/ IsDigit(ch) \/ ch \in {".", "-"}

\* fieldPatterns.email: /^[a-zA-Z0-9._%+-]+@[a-zA-Z0-9.-]+\.[a-zA-Z]{2,}$/
StrictEmailTest(s) ==
    \E at \in 2..Len(s) : \E dot \in (at + 2)..(Len(s) - 2) :
        /\ s[at] = "@"
        /\ s[dot] = "."
        /\ \A i \in 1..(at - 1) : IsStrictLocalChar(s[i])
        /\ \A i \in (at + 1)..(dot - 1) : IsStrictDomainChar(s[i])
        /\ \A i \in (dot + 1)..Len(s) : IsLetter(s[i])

\* \d{n,} somewhere in s
HasDigitRun(s, n) ==
    \E i \in 1..(Len(s) - n + 1) : AllDigits(SubSeq(s, i, i + n - 1))

\* [\d\s\-\(\)\.] with dotted = TRUE, [\d\s\-\(\)] without
IsPhoneShapeChar(ch, dotted) ==
    IsDigit(ch) \/ IsSpace(ch) \/ ch \in {"-", "(", ")"} \/ (dotted /\ ch = ".")

\* /^[\+]?<class>{lo,hi}$/
PhoneShape(s, dotted, lo, hi) ==
    LET rest == IF s # <<>> /\ Head(s) = "+" THEN Tail(s) ELSE s
    IN  /\ Len(rest) >= lo
        /\ Len(rest) <= hi
        /\ \A i \in 1..Len(rest) : IsPhoneShapeChar(rest[i], dotted)

\* fieldPatterns.phone: /^[\+]?[\d\s\-\(\)\.]{10,20}$/
PatternPhoneTest(s) == PhoneShape(s, TRUE, 10, 20)

\* fieldPatterns.number: /^-?\d*\.?\d+$/
PatternNumberTest(s) ==
    LET unsigned == IF s # <<>> /\ Head(s) = "-" THEN Tail(s) ELSE s
    IN  \E k \in 0..Len(unsigned) :
            /\ AllDigits(SubSeq(unsigned, 1, k))
            /\ \/ (k < Len(unsigned) /\ AllDigits(SubSeq(unsigned, k + 1, Len(unsigned))))
               \/ (k + 1 < Len(unsigned) /\ unsigned[k + 1] = "."
                   /\ AllDigits(SubSeq(unsigned, k + 2, Len(unsigned))))

\* ^\d{4}-\d{2}-\d{2}
IsoDatePrefix(s) ==
    /\ Len(s) >= 10
    /\ AllDigits(SubSeq(s, 1, 4)) /\ s[5] = "-"
    /\ AllDigits(SubSeq(s, 6, 7)) /\ s[8] = "-"
    /\ AllDigits(SubSeq(s, 9, 10))

\* ^\d{1,2}<sep>\d{1,2}<sep>\d{2,4}
ShortDatePrefix(s, sep) ==
    \E a \in 1..2 : \E b \in 1..2 :
        /\ Len(s) >= a + b + 4
        /\ AllDigits(SubSeq(s, 1, a)) /\ s[a + 1] = sep
        /\ AllDigits(SubSeq(s, a + 2, a + b + 1)) /\ s[a + b + 2] = sep
        /\ AllDigits(SubSeq(s, a + b + 3, a + b + 4))

\* fieldPatterns.datetime
PatternDateTest(s) ==
    IsoDatePrefix(s) \/ ShortDatePrefix(s, "/") \/ ShortDatePrefix(s, "-")

\* FieldMappingEngine.isValidDate: !isNaN(Date.parse(value))
IsValidDate(s, lenient) == DateToISOString(s, lenient) # NULL

PatternBooleans ==
    { <<"t", "r", "u", "e">>, <<"f", "a", "l", "s", "e">>, <<"y", "e", "s">>,
      <<"n", "o">>, <<"y">>, <<"n">>, <<"1">>, <<"0">>, <<"o", "n">>,
      <<"o", "f", "f">> }

TypeBooleans == PatternBooleans \ { <<"o", "n">>, <<"o", "f", "f">> }

\* !isNaN(Number(trimmed)) for the decimal literals of the sample cells
IsJsNumber(s) ==
    LET unsigned == IF s # <<>> /\ Head(s) \in {"-", "+"} THEN Tail(s) ELSE s
    IN  \E k \in 0..Len(unsigned) :
            /\ AllDigits(SubSeq(unsigned, 1, k))
            /\ \/ (k = Len(unsigned) /\ k > 0)
               \/ (k < Len(unsigned) /\ unsigned[k + 1] = "."
                   /\ AllDigits(SubSeq(unsigned, k + 2, Len(unsigned)))
                   /\ (k > 0 \/ k + 1 < Len(unsigned)))

TextExactLimit == 200

\* FieldMappingEngine.analyzeValuePattern
AnalyzeValuePattern(value, fieldType, lenient) ==
    LET trimmed == Trim(value)
    IN  IF trimmed = <<>> THEN [exact |-> FALSE, partial |-> FALSE]
        ELSE CASE fieldType = "email" ->
                    [exact   |-> StrictEmailTest(trimmed),
                     partial |-> Includes(trimmed, <<"@">>)]
               [] fieldType = "phone" ->
                    [exact   |-> PatternPhoneTest(trimmed) /\ HasDigitRun(trimmed, 3),
                     partial |-> HasDigitRun(trimmed, 3)]
               [] fieldType = "number" ->
                    [exact   |-> PatternNumberTest(trimmed),
                     partial |-> HasDigitRun(trimmed, 1)]
               [] fieldType = "datetime" ->
                    [exact   |-> IsValidDate(trimmed, lenient) /\ PatternDateTest(trimmed),
                     partial |-> IsValidDate(trimmed, lenient) \/ HasDigitRun(trimmed, 4)]
               [] fieldType = "checkbox" ->
                    [exact   |-> ToLowerCase(trimmed) \in PatternBooleans,
                     partial |-> FALSE]
               [] OTHER ->
                    [exact   |-> Len(trimmed) > 0 /\ Len(trimmed) < TextExactLimit,
                     partial |-> Len(trimmed) > 0]

\* FieldMappingEngine.matchesFieldType
MatchesFieldType(value, fieldType, lenient) ==
    LET trimmed == Trim(value)
    IN  IF trimmed = <<>> THEN FALSE
        ELSE CASE fieldType = "email" ->
                    EmailRegexTest(trimmed)
               [] fieldType = "phone" ->
                    PhoneShape(trimmed, FALSE, 7, 20)
               [] fieldType = "number" ->
                    IsJsNumber(trimmed)
               [] fieldType = "datetime" ->
                    IsValidDate(trimmed, lenient)
               [] fieldType = "checkbox" ->
                    ToLowerCase(trimmed) \in TypeBooleans
               [] OTHER -> Len(trimmed) > 0

\* Math.round(x / n) for x >= 0 and n > 0
RoundDiv(x, n) == (2 * x + n) \div (2 * n)

DataCap == 40

\* FieldMappingEngine.calculateEnhancedDataScore
CalculateEnhancedDataScore(sampleData, fieldType, lenient) ==
    IF Len(sampleData) = 0 THEN 0
    ELSE LET matches == Cardinality({ i \in 1..Len(sampleData) :
                            AnalyzeValuePattern(sampleData[i], fieldType, lenient).exact })
             partialMatches == Cardinality({ i \in 1..Len(sampleData) :
                            /\ ~AnalyzeValuePattern(sampleData[i], fieldType, lenient).exact
                            /\ AnalyzeValuePattern(sampleData[i], fieldType, lenient).partial })
             scaled == matches * 40 + partialMatches * 20
         IN  RoundDiv(Min(scaled, DataCap * Len(sampleData)), Len(sampleData))

\* FieldMappingEngine.calculateDataPatternScore
CalculateDataPatternScore(sampleData, fieldType, lenient) ==
    IF Len(sampleData) = 0 THEN 0
    ELSE LET matches == Cardinality({ i \in 1..Len(sampleData) :
                            MatchesFieldType(sampleData[i], fieldType, lenient) })
         IN  RoundDiv(matches * 40, Len(sampleData))

(***************************************************************************)
(* Field detection: findBestFieldMatchCombined, fallbackPatternMatch and   *)
(* detectFields                                                            *)
(***************************************************************************)
\* JavaScript null where a match or a field is expected
NoMatch == [isNull |-> TRUE]

NoField == [absent |-> TRUE]

Match(field, confidence) == [isNull |-> FALSE, field |-> field, confidence |-> confidence]

\* the fuzzy score on a scale of 100 points
FuzzyScoreOfHundred(scorePct) == 100 - scorePct

\* Math.round((1 - (result.score || 0)) * 60), the score in hundredths
FuzzyScore(scorePct) == (2 * (100 - scorePct) * 60 + 100) \div 200

AcceptThreshold == 30

ConfidenceCap == 100

AcceptsAnyScore(total, best) ==
    total > 0 /\ (best.isNull \/ total > best.confidence)

\* totalConfidence > 30 && (!bestMatch || totalConfidence > bestMatch.confidence)
Accepts(total, best) ==
    total > AcceptThreshold /\ (best.isNull \/ total > best.confidence)

\* the four scores findBestFieldMatchCombined adds up for one fuzzy result
CombinedScore(header, sampleData, result, lenient) ==
    FuzzyScore(result.score)
    + CalculateEnhancedDataScore(sampleData, result.field.type, lenient)
    + CalculateKeywordBonus(header, result.field.id)
    + CalculateLegacySimilarity(header, result.field)

\* the loop of findBestFieldMatchCombined over fuseResults.slice(0, 3)
RECURSIVE EvaluateFuseResults(_, _, _, _, _)
EvaluateFuseResults(header, sampleData, results, best, lenient) ==
    IF results = <<>> THEN best
    ELSE LET total == Min(CombinedScore(header, sampleData, Head(results), lenient),
                          ConfidenceCap)
         IN  EvaluateFuseResults(header, sampleData, Tail(results),
                 IF Accepts(total, best) THEN Match(Head(results).field, total) ELSE best,
                 lenient)

\* the loop of fallbackPatternMatch over this.contactFields; bestMatch starts
\* as the object { field: null, confidence: 0 }
RECURSIVE EvaluateFallback(_, _, _, _, _)
EvaluateFallback(header, sampleData, fields, best, lenient) ==
    IF fields = <<>> THEN best
    ELSE LET total == CalculateLegacySimilarity(header, Head(fields))
                      + CalculateDataPatternScore(sampleData, Head(fields).type, lenient)
         IN  EvaluateFallback(header, sampleData, Tail(fields),
                 IF Accepts(total, best)
                 THEN Match(Head(fields), Min(total, ConfidenceCap))
                 ELSE best,
                 lenient)

\* FieldMappingEngine.fallbackPatternMatch
FallbackPatternMatch(header, sampleData, fields, lenient) ==
    EvaluateFallback(header, sampleData, fields, Match(NoField, 0), lenient)

FuseTop == 3

\* FieldMappingEngine.findBestFieldMatchCombined, fuseResults being what
\* this.fieldSearchEngine.search(header) returned
FindBestFieldMatchCombined(header, sampleData, fuseResults, fields, lenient) ==
    IF Len(fuseResults) = 0
    THEN FallbackPatternMatch(header, sampleData, fields, lenient)
    ELSE EvaluateFuseResults(header, sampleData,
             SubSeq(fuseResults, 1, Min(FuseTop, Len(fuseResults))), NoMatch, lenient)

SampleLimit == 5

\* sampleRows.slice(0, 5).map(row => row[index] || '').filter(value => value && value.trim())
SampleData(sampleRows, index) ==
    LET top    == SubSeq(sampleRows, 1, Min(SampleLimit, Len(sampleRows)))
        column == [i \in 1..Len(top) |->
                      IF index <= Len(top[i]) THEN top[i][index] ELSE <<>>]
        NotBlank(value) == Trim(value) # <<>>
    IN  SelectSeq(column, NotBlank)

\* reading bestMatch.field.id of a match whose field is null throws
DetectThrows(bestMatch) == ~bestMatch.isNull /\ bestMatch.field = NoField

\* the entry detectFields pushes for one header
DetectedEntry(header, sampleData, bestMatch) ==
    [name             |-> header,
     suggestedMapping |-> IF bestMatch.isNull THEN "" ELSE bestMatch.field.id,
     confidence       |-> IF bestMatch.isNull THEN 0 ELSE bestMatch.confidence,
     type             |-> IF ~bestMatch.isNull /\ bestMatch.field.core
                          THEN "core" ELSE "custom",
     samples          |-> SubSeq(sampleData, 1, Min(3, Len(sampleData)))]

(***************************************************************************)
(* Specification of field detection on its own                             *)
(***************************************************************************)
MaxFuseResults == 4

\* uploaded files: the header row and the sample rows
DetectFiles ==
    { [headers |-> << <<"E", "-", "m", "a", "i", "l", " ", "A", "d", "d", "r", "e", "s", "s">>,
                     <<"P", "h", "o", "n", "e">> >>,
       rows    |-> << << <<"j", "o", "@", "b", ".", "c", "o">>, <<"5", "5", "5", "-", "1", "2", "3", "-", "4", "5", "6", "7">> >>,
                     << <<"a", "m", "y", "@", "b", ".", "c", "o">>, <<"(", "5", "5", "5", ")", " ", "1", "2", "3", " ", "4", "5", "6", "7">> >> >>],
      [headers |-> << <<"z", "z", "z">>,
                     <<"f", "i", "r", "s", "t", "_", "n", "a", "m", "e">> >>,
       rows    |-> << << <<"J", "o">>, <<"1", "2">> >>,
                     << <<"2", "0", "2", "0", "-", "0", "1", "-", "0", "2">>, <<"y", "e", "s">> >>,
                     << <<"x", "@", "y">>, <<"1", "/", "2", "/", "2", "0", "2", "0">> >>,
                     << <<" ", " ">>, <<>> >> >>],
      [headers |-> << <<"#">>,
                     <<"T", "e", "l", " ", "M", "o", "b", "i", "l", "e">> >>,
       rows    |-> <<>>],
      [headers |-> << <<"T", "e", "l", " ", "M", "o", "b", "i", "l", "e">>,
                     <<"z", "z", "z">>,
                     <<"P", "h", "o", "n", "e">> >>,
       rows    |-> << << <<"B", "o", "b">> >> >>] }

Catalogs == { CoreFields, CoreFields \o CustomFields }

\* orders in which the fuzzy index may rank the fields
FuseRankings ==
    { <<"email", "phone", "firstName", "agentUid", "status", "lastName", "createdOn", "score">>,
      <<"phone", "score", "createdOn", "email", "lastName", "status", "firstName", "agentUid">>,
      <<"lastName", "firstName", "status", "createdOn", "phone", "email", "score", "agentUid">> }

\* Fuse scores in hundredths: 0 is a perfect match, 100 a complete mismatch
FuseBaseScores == {0, 50, 100}

FuseScoreStep == 15

FieldById(fields, id) ==
    fields[CHOOSE i \in 1..Len(fields) : fields[i].id = id]

\* a result list of the fuzzy index: n catalog fields in the order of a
\* ranking, with scores that do not decrease
FuseResults(fields, ranking, n, base) ==
    LET InCatalog(id) == \E i \in 1..Len(fields) : fields[i].id = id
        ranked        == SelectSeq(ranking, InCatalog)
    IN  [i \in 1..Min(n, Len(ranked)) |->
            [field |-> FieldById(fields, ranked[i]),
             score |-> Min(base + FuseScoreStep * (i - 1), 100)]]

InitDetect ==
    /\ pc = "detect"
    /\ \E file \in DetectFiles :
         /\ headers = file.headers
         /\ rows = file.rows
    /\ contactFields \in Catalogs
    /\ fieldsData = Loaded(contactFields)
    /\ lastCall = NoCall
    /\ tx = NoTx
    /\ uploadError = NULL
    /\ persisted = NoneWritten
    /\ guard = NoGuard
    /\ mappings = <<>>
    /\ users = <<Jo>>
    /\ processedContacts = <<>>
    /\ existingContacts = <<>>
    /\ analyzedAgainst = <<>>
    /\ previewSummary = NoSummary
    /\ importedPlan = NoSummary
    /\ issuedOps = <<>>
    /\ importResults = NoResults
    /\ nextId = 0
    /\ currentStep = "upload"
    /\ detectedFields = <<>>
    /\ draftMappings = <<>>
    /\ isImporting = FALSE
    /\ modalResults = NoResults
    /\ validationErrors = <<>>

\* one call of the headers.forEach callback of detectFields: the header at
\* the next index is matched; a TypeError ends the call of detectFields
DetectHeader ==
    /\ pc = "detect"
    /\ Len(detectedFields) < Len(headers)
    /\ \E ranking \in FuseRankings : \E n \in 0..MaxFuseResults :
       \E base \in FuseBaseScores : \E lenient \in BOOLEAN :
         LET index       == Len(detectedFields) + 1
             cleanHeader == NormalizeHeader(headers[index])
             sampleData  == SampleData(rows, index)
             bestMatch   == FindBestFieldMatchCombined(cleanHeader, sampleData,
                                FuseResults(contactFields, ranking, n, base),
                                contactFields, lenient)
         IN  IF DetectThrows(bestMatch)
             THEN /\ pc' = "threw"
                  /\ UNCHANGED detectedFields
             ELSE /\ detectedFields' =
                        Append(detectedFields,
                               DetectedEntry(headers[index], sampleData, bestMatch))
                  /\ UNCHANGED pc
    /\ UNCHANGED hookVars
    /\ UNCHANGED <<headers, rows, mappings, users, processedContacts, currentStep,
                   draftMappings, isImporting, modalResults, validationErrors>>
    /\ UNCHANGED importVars

\* detectFields returns detectedFields once every header has been visited
DetectReturn ==
    /\ pc = "detect"
    /\ Len(detectedFields) = Len(headers)
    /\ pc' = "detected"
    /\ UNCHANGED hookVars
    /\ UNCHANGED <<headers, rows, mappings, users, processedContacts>>
    /\ UNCHANGED importVars
    /\ UNCHANGED wizardVars

NextDetect == DetectHeader \/ DetectReturn

SpecDetect == InitDetect /\ [][NextDetect]_vars

(***************************************************************************)
(* Specification of analyzeImport on its own                               *)
(***************************************************************************)
MaxCandidates == 2

\* contacts handed to analyzeImport directly, blank and absent values included
AnalyzeCandidates ==
    { EmptyContact,
      [email |-> <<" ">>],
      [email |-> <<>>, phone |-> <<" ", " ">>],
      [firstName |-> <<"B", "o", "b">>],
      [email |-> JoMail, firstName |-> <<"J", "o">>],
      [phone |-> <<"1", "2", "3">>, firstName |-> <<" ">>] }

AnalyzeMappings ==
    { << [name |-> "Email", targetField |-> "email", targetFieldType |-> "text"],
         [name |-> "Skip", targetField |-> "", targetFieldType |-> "text"],
         [name |-> "Phone", targetField |-> "phone", targetFieldType |-> "text"] >>,
      << [name |-> "Email", targetField |-> "email", targetFieldType |-> "text"],
         [name |-> "Phone", targetField |-> "phone", targetFieldType |-> "text"],
         [name |-> "Name", targetField |-> "firstName", targetFieldType |-> "text"] >> }

InitAnalyze ==
    /\ pc = "analyze"
    /\ headers = <<>>
    /\ rows = <<>>
    /\ mappings \in AnalyzeMappings
    /\ users = <<Jo>>
    /\ processedContacts \in SeqsOf(AnalyzeCandidates, 1, MaxCandidates)
    /\ existingContacts \in DistinctSeqs(StoredContacts, 1)
    /\ analyzedAgainst = <<>>
    /\ previewSummary = NoSummary
    /\ importedPlan = NoSummary
    /\ issuedOps = <<>>
    /\ importResults = NoResults
    /\ nextId = 0
    /\ currentStep = "final"
    /\ detectedFields = <<>>
    /\ draftMappings = <<>>
    /\ isImporting = FALSE
    /\ modalResults = NoResults
    /\ validationErrors = <<>>
    /\ contactFields = CoreFields
    /\ fieldsData = Loaded(CoreFields)
    /\ lastCall = NoCall
    /\ tx = NoTx
    /\ uploadError = NULL
    /\ persisted = NoneWritten
    /\ guard = NoGuard

\* analyzeImport(contactsData, existingContacts, mappedKeys)
AnalyzeImportCall ==
    /\ pc = "analyze"
    /\ LET plan == AnalyzeImport(processedContacts, existingContacts, MappedKeys(mappings))
       IN  previewSummary' = [willCreate      |-> plan.willCreate,
                              willMerge       |-> plan.willMerge,
                              willSkip        |-> plan.willSkip,
                              errors          |-> <<>>,
                              invalidContacts |-> <<>>]
    /\ analyzedAgainst' = existingContacts
    /\ pc' = "analyzed"
    /\ UNCHANGED hookVars
    /\ UNCHANGED <<headers, rows, mappings, users, processedContacts, existingContacts,
                   importedPlan, issuedOps, importResults, nextId>>
    /\ UNCHANGED wizardVars

NextAnalyze == AnalyzeImportCall

SpecAnalyze == InitAnalyze /\ [][NextAnalyze]_vars

(***************************************************************************)
(* useContactFields: the catalog hook (hooks/useFirestore.ts)              *)
(***************************************************************************)
MaxCalls == 3

\* s.replace(/\s+/g, '_'): every run of white space becomes one underscore
RECURSIVE ReplaceSpaceRuns(_)
ReplaceSpaceRuns(s) ==
    IF s = <<>> THEN <<>>
    ELSE IF IsSpace(Head(s))
         THEN <<"_">> \o ReplaceSpaceRuns(TrimStart(s))
         ELSE <<Head(s)>> \o ReplaceSpaceRuns(Tail(s))

\* the field id whose characters are text
FieldIdOf(text) == CHOOSE id \in DOMAIN FieldIdText : FieldIdText[id] = text

\* fieldData.label.toLowerCase().replace(/\s+/g, '_')
DerivedFieldId(label) == FieldIdOf(ReplaceSpaceRuns(ToLowerCase(label)))

\* result.data.find(field => field.id === fieldId) found a field
FindsField(data, fieldId) == \E i \in 1..Len(data) : data[i].id = fieldId

FoundField(data, fieldId) ==
    data[CHOOSE i \in 1..Len(data) :
            /\ data[i].id = fieldId
            /\ \A j \in 1..(i - 1) : data[j].id # fieldId]

\* setDoc / transaction.set: the document is created, or replaced as a whole
SetDoc(store, id, item) ==
    IF HasDoc(store, id)
    THEN [i \in 1..Len(store) |->
             IF store[i].id = id THEN Overlay([id |-> id], item) ELSE store[i]]
    ELSE Append(store, Overlay([id |-> id], item))

RECURSIVE SetDocs(_, _)
SetDocs(store, items) ==
    IF items = <<>> THEN store
    ELSE SetDocs(SetDoc(store, Head(items).id, Head(items)), Tail(items))

\* updateDoc(ref, {...updates, updatedAt: serverTimestamp()})
UpdateDoc(store, id, updates) ==
    [i \in 1..Len(store) |->
        IF store[i].id = id
        THEN Overlay(store[i], SetField(updates, "updatedAt", ServerTimestamp))
        ELSE store[i]]

\* deleteDoc(ref)
DeleteDoc(store, id) == SelectSeq(store, LAMBDA d : d.id # id)

Settled(op, id, outcome, error, before) ==
    [op |-> op, id |-> id, outcome |-> outcome, error |-> error,
     before |-> before, n |-> lastCall.n + 1]

\* the arguments the hook functions are called with
CustomFieldInputs ==
    { [label |-> <<"E", "m", "a", "i", "l">>, type |-> "text"],
      [label |-> <<"S", "c", "o", "r", "e">>, type |-> "number"],
      [label |-> <<"S", "C", "O", "R", "E">>, type |-> "text"],
      [label |-> <<"L", "e", "a", "d", " ", "\t", "S", "c", "o", "r", "e">>,
       type |-> "number"],
      [label |-> <<"F", "i", "r", "s", "t", " ", "N", "a", "m", "e">>,
       type |-> "text"] }

FieldUpdates ==
    { [label |-> <<"M", "a", "i", "l">>], [type |-> "number"], [core |-> FALSE] }

FieldTargets == {"email", "score", "missing"}

InitCatalog ==
    /\ pc = "catalog"
    /\ contactFields \in {<<>>, CoreFields}
    /\ fieldsData = [loading |-> TRUE, data |-> <<>>]
    /\ lastCall = NoCall
    /\ tx = NoTx
    /\ uploadError = NULL
    /\ persisted = NoneWritten
    /\ guard = NoGuard
    /\ headers = <<>>
    /\ rows = <<>>
    /\ mappings = <<>>
    /\ users = <<>>
    /\ processedContacts = <<>>
    /\ existingContacts = <<>>
    /\ analyzedAgainst = <<>>
    /\ previewSummary = NoSummary
    /\ importedPlan = EmptyPlan
    /\ issuedOps = <<>>
    /\ importResults = NoResults
    /\ nextId = 0
    /\ currentStep = "closed"
    /\ detectedFields = <<>>
    /\ draftMappings = <<>>
    /\ isImporting = FALSE
    /\ modalResults = NoResults
    /\ validationErrors = <<>>

catalogRest == <<pc, headers, rows, mappings, users, processedContacts,
                 importVars, wizardVars, tx, uploadError, persisted, guard>>

\* onSnapshot callback of useFirestore: setData(items); setLoading(false)
OnSnapshot ==
    /\ pc = "catalog"
    /\ fieldsData # Loaded(contactFields)
    /\ fieldsData' = Loaded(contactFields)
    /\ UNCHANGED <<contactFields, lastCall, catalogRest>>

\* the effect of useContactFields: an empty collection gets the core fields,
\* written in one transaction
SeedCoreFields ==
    /\ pc = "catalog"
    /\ ~fieldsData.loading
    /\ fieldsData.data = <<>>
    /\ contactFields' = SetDocs(contactFields, CoreFields)
    /\ UNCHANGED <<fieldsData, lastCall, catalogRest>>

CreateCustomField(fieldData) ==
    LET fieldId == DerivedFieldId(fieldData.label)
    IN  /\ pc = "catalog"
        /\ lastCall.n < MaxCalls
        /\ IF FindsField(fieldsData.data, fieldId)
           THEN /\ lastCall' = Settled("createCustomField", fieldId, "rejected",
                                       "already exists", contactFields)
                /\ UNCHANGED contactFields
           ELSE /\ contactFields' =
                       SetDoc(contactFields, fieldId,
                              Overlay(fieldData, [id |-> fieldId, core |-> FALSE]))
                /\ lastCall' = Settled("createCustomField", fieldId, "resolved",
                                       "", contactFields)
        /\ UNCHANGED <<fieldsData, catalogRest>>

UpdateField(fieldId, updates) ==
    /\ pc = "catalog"
    /\ lastCall.n < MaxCalls
    /\ IF ~FindsField(fieldsData.data, fieldId)
       THEN /\ lastCall' = Settled("updateField", fieldId, "rejected",
                                   "not found", contactFields)
            /\ UNCHANGED contactFields
       ELSE IF FoundField(fieldsData.data, fieldId).core /\ "core" \in DOMAIN updates
       THEN /\ lastCall' = Settled("updateField", fieldId, "rejected",
                                   "Cannot modify core field status", contactFields)
            /\ UNCHANGED contactFields
       ELSE IF ~HasDoc(contactFields, fieldId)
       THEN /\ lastCall' = Settled("updateField", fieldId, "rejected",
                                   "No document to update", contactFields)
            /\ UNCHANGED contactFields
       ELSE /\ contactFields' = UpdateDoc(contactFields, fieldId, updates)
            /\ lastCall' = Settled("updateField", fieldId, "resolved", "",
                                   contactFields)
    /\ UNCHANGED <<fieldsData, catalogRest>>

DeleteField(fieldId) ==
    /\ pc = "catalog"
    /\ lastCall.n < MaxCalls
    /\ IF ~FindsField(fieldsData.data, fieldId)
       THEN /\ lastCall' = Settled("deleteField", fieldId, "rejected",
                                   "not found", contactFields)
            /\ UNCHANGED contactFields
       ELSE IF FoundField(fieldsData.data, fieldId).core
       THEN /\ lastCall' = Settled("deleteField", fieldId, "rejected",
                                   "Cannot delete core fields", contactFields)
            /\ UNCHANGED contactFields
       ELSE /\ contactFields' = DeleteDoc(contactFields, fieldId)
            /\ lastCall' = Settled("deleteField", fieldId, "resolved", "",
                                   contactFields)
    /\ UNCHANGED <<fieldsData, catalogRest>>

NextCatalog ==
    \/ OnSnapshot
    \/ SeedCoreFields
    \/ \E fieldData \in CustomFieldInputs : CreateCustomField(fieldData)
    \/ \E fieldId \in FieldTargets : \E updates \in FieldUpdates :
           UpdateField(fieldId, updates)
    \/ \E fieldId \in FieldTargets : DeleteField(fieldId)

SpecCatalog == InitCatalog /\ [][NextCatalog]_vars

(***************************************************************************)
(* useUsers: createUser and isEmailUnique (hooks/useFirestore.ts); users   *)
(* is the users collection, and the calls are made one after the other     *)
(***************************************************************************)
EmailExistsMessage == "User with this email already exists"

\* getDocs(query(users, where('email', '==', email.toLowerCase()))).empty
IsEmailUnique(store, email) ==
    ~\E i \in 1..Len(store) : store[i].email = ToLowerCase(email)

NewUserEmails ==
    { <<"j", "o", "@", "b", ".", "c", "o">>,
      <<"J", "o", "@", "b", ".", "c", "o">>,
      <<"a", "m", "y", "@", "b", ".", "c", "o">>,
      <<"A", "m", "y", "@", "b", ".", "c", "o">>,
      <<"l", "e", "e", "@", "b", ".", "c", "o">> }

InitUsers ==
    /\ pc = "users"
    /\ users \in {<<>>} \cup UserSets
    /\ contactFields = CoreFields
    /\ fieldsData = Loaded(CoreFields)
    /\ lastCall = NoCall
    /\ tx = NoTx
    /\ uploadError = NULL
    /\ persisted = NoneWritten
    /\ guard = NoGuard
    /\ headers = <<>>
    /\ rows = <<>>
    /\ mappings = <<>>
    /\ processedContacts = <<>>
    /\ existingContacts = <<>>
    /\ analyzedAgainst = <<>>
    /\ previewSummary = NoSummary
    /\ importedPlan = EmptyPlan
    /\ issuedOps = <<>>
    /\ importResults = NoResults
    /\ nextId = 0
    /\ currentStep = "closed"
    /\ detectedFields = <<>>
    /\ draftMappings = <<>>
    /\ isImporting = FALSE
    /\ modalResults = NoResults
    /\ validationErrors = <<>>

CreateUser(email) ==
    /\ pc = "users"
    /\ lastCall.n < MaxCalls
    /\ IF ~IsEmailUnique(users, email)
       THEN /\ lastCall' = [op |-> "createUser", email |-> email,
                            outcome |-> "rejected", error |-> EmailExistsMessage,
                            before |-> users, n |-> lastCall.n + 1]
            /\ UNCHANGED <<users, nextId>>
       ELSE /\ users' = Append(users, [id |-> NewDocId(nextId + 1), email |-> email])
            /\ nextId' = nextId + 1
            /\ lastCall' = [op |-> "createUser", email |-> email,
                            outcome |-> "resolved", error |-> "",
                            before |-> users, n |-> lastCall.n + 1]
    /\ UNCHANGED <<pc, headers, rows, mappings, processedContacts, existingContacts,
                   analyzedAgainst, previewSummary, importedPlan, issuedOps,
                   importResults, wizardVars, contactFields, fieldsData, tx,
                   uploadError, persisted, guard>>

NextUsers == \E email \in NewUserEmails : CreateUser(email)

SpecUsers == InitUsers /\ [][NextUsers]_vars

(***************************************************************************)
(* Specification of the upload step and of the preview step when the       *)
(* catalog or the user directory may be empty                              *)
(***************************************************************************)
NoHeadersMessage == "No headers found in the file"

NoRowsMessage == "No data rows found in the file"

InitSystemic ==
    /\ \/ /\ pc = "dropped"
          /\ \E file \in DetectFiles :
               /\ headers = file.headers
               /\ rows = file.rows
          /\ mappings = <<>>
          /\ users = <<Jo>>
          /\ contactFields \in {<<>>} \cup Catalogs
          /\ currentStep = "upload"
       \/ /\ pc = "mounted"
          /\ headers = FileHeaders
          /\ rows \in SeqsOf(FileRows, 1, 1)
          /\ mappings \in ImportMappings
          /\ users \in {<<>>, <<Jo>>}
          /\ contactFields \in {<<>>, CoreFields}
          /\ currentStep = "final"
    /\ fieldsData = Loaded(contactFields)
    /\ lastCall = NoCall
    /\ tx = NoTx
    /\ uploadError = NULL
    /\ persisted = NoneWritten
    /\ guard = NoGuard
    /\ processedContacts = <<>>
    /\ existingContacts = <<>>
    /\ analyzedAgainst = <<>>
    /\ previewSummary = NoSummary
    /\ importedPlan = NoSummary
    /\ issuedOps = <<>>
    /\ importResults = NoResults
    /\ nextId = 0
    /\ detectedFields = <<>>
    /\ draftMappings = <<>>
    /\ isImporting = FALSE
    /\ modalResults = NoResults
    /\ validationErrors = <<>>

systemicRest == <<headers, rows, mappings, users, processedContacts, importVars,
                  draftMappings, isImporting, modalResults, validationErrors,
                  contactFields, fieldsData, lastCall, tx, persisted, guard>>

\* FileUpload.onDrop up to onFileUploaded: a file without headers or without
\* data rows ends in the catch block, which sets the error state
OnDrop ==
    /\ pc = "dropped"
    /\ IF headers = <<>>
       THEN /\ uploadError' = NoHeadersMessage
            /\ pc' = "uploadFailed"
       ELSE IF rows = <<>>
       THEN /\ uploadError' = NoRowsMessage
            /\ pc' = "uploadFailed"
       ELSE /\ pc' = "uploaded"
            /\ UNCHANGED uploadError
    /\ UNCHANGED <<currentStep, detectedFields, systemicRest>>

\* the setTimeout callback of onDrop: detection starts when the catalog the
\* component holds is not empty, otherwise only isProcessing is reset
DetectionTimeout ==
    /\ pc = "uploaded"
    /\ pc' = IF Len(fieldsData.data) > 0 THEN "detect" ELSE "idle"
    /\ UNCHANGED <<currentStep, detectedFields, uploadError, systemicRest>>

\* onFieldsDetected(detected), or onFieldsDetected([]) from the catch block
\* around detectFields; ImportModal.handleFieldsDetected
OnFieldsDetected ==
    /\ pc \in {"detected", "threw"}
    /\ detectedFields' = IF pc = "threw" THEN <<>> ELSE detectedFields
    /\ currentStep' = "detection"
    /\ pc' = "fieldsDetected"
    /\ UNCHANGED <<uploadError, systemicRest>>

\* ImportPreview's effect when its condition is false: runAnalysisProcess is
\* not called and the component keeps showing the phase 'analyzing'
AnalysisNotStarted ==
    /\ pc = "mounted"
    /\ ~(Len(users) > 0 /\ Len(fieldsData.data) > 0)
    /\ pc' = "analyzing"
    /\ UNCHANGED <<currentStep, detectedFields, uploadError, systemicRest>>

NextSystemic ==
    \/ OnDrop
    \/ DetectionTimeout
    \/ DetectHeader
    \/ DetectReturn
    \/ OnFieldsDetected
    \/ RunAnalysisProcess
    \/ AnalysisNotStarted

SpecSystemic == InitSystemic /\ [][NextSystemic]_vars

(***************************************************************************)
(* useFirestore: transactionWrite, batchWrite and atomicBatchWrite.  The   *)
(* collection is existingContacts; tx is the call in progress.  What a     *)
(* call returns is what its inner promise settles with.                    *)
(***************************************************************************)
MaxRetryInput == 3

DefaultMaxRetries == 3

BackoffBase == 2

BackoffUnit == 1000

AtomicLimitMessage == "Atomic operations cannot exceed 500 items"

\* variant: the length of the list is not looked at
NeverExceedsAtomicLimit(operations) == FALSE

\* operations.length > 500
ExceedsAtomicLimit(operations) == Len(operations) > AtomicLimit

\* variant: a wait follows every failed attempt
BackoffAlwaysDue(attempt, maxRetries) == TRUE

\* attempt < maxRetries - 1: a wait follows the failed attempt
BackoffDue(attempt, maxRetries) == attempt < maxRetries - 1

\* Math.pow(2, attempt) * 1000
BackoffDelay(attempt) == (BackoffBase ^ attempt) * BackoffUnit

\* one write of a transaction or of a batch; stamped: batch.update adds
\* updatedAt
WriteOne(st, op, stamped) ==
    IF op.type = "add"
    THEN LET id == IF op.id = NULL THEN NewDocId(st.nextId + 1) ELSE op.id
         IN  [store   |-> SetDoc(st.store, id, op.data),
              nextId  |-> IF op.id = NULL THEN st.nextId + 1 ELSE st.nextId,
              results |-> Append(st.results, id)]
    ELSE IF op.type = "update"
    THEN [st EXCEPT !.store =
              [i \in 1..Len(st.store) |->
                  IF st.store[i].id = op.id
                  THEN Overlay(st.store[i],
                           IF stamped
                           THEN SetField(op.data, "updatedAt", ServerTimestamp)
                           ELSE op.data)
                  ELSE st.store[i]]]
    ELSE [st EXCEPT !.store = DeleteDoc(st.store, op.id)]

\* the writes of ops one after the other, in the order of the list.  The
\* list is walked by halves, and the first half is written before the second
\* is looked at (the id counter never goes back, so the test always holds)
RECURSIVE WriteAll(_, _, _)
WriteAll(st, ops, stamped) ==
    IF ops = <<>> THEN st
    ELSE IF Len(ops) = 1 THEN WriteOne(st, ops[1], stamped)
    ELSE LET half == Len(ops) \div 2
             done == WriteAll(st, SubSeq(ops, 1, half), stamped)
         IN  IF done.nextId >= st.nextId
             THEN WriteAll(done, SubSeq(ops, half + 1, Len(ops)), stamped)
             ELSE st

\* an update of a document that does not exist when its turn comes makes
\* the commit fail
Committable(store, ops) ==
    \A i \in 1..Len(ops) :
        ops[i].type = "update" =>
            HasDoc(WriteAll([store |-> store, nextId |-> 0, results |-> <<>>],
                            SubSeq(ops, 1, i - 1), FALSE).store,
                   ops[i].id)

\* the collection after a transaction that failed: none of its writes
AbortedWrites(st, ops) == st

\* the errors an attempt can fail with
TransactionErrors(store, ops) ==
    {"aborted", "unavailable"} \cup
        (IF Committable(store, ops) THEN {} ELSE {"not-found"})

\* how one call of runTransaction can end: committed, or failed with an error
AttemptOutcomes(store, ops) ==
    (IF Committable(store, ops) THEN {"committed"} ELSE {}) \cup
        TransactionErrors(store, ops)

\* the argument lists of the calls
TxStores ==
    { <<>>,
      << [id |-> <<"k1">>, v |-> "x"], [id |-> <<"k2">>, v |-> "y"] >> }

OpAddNew == [type |-> "add", id |-> NULL, data |-> [v |-> "a"]]

OpAddK3 == [type |-> "add", id |-> <<"k3">>, data |-> [v |-> "b"]]

OpUpdateK1 == [type |-> "update", id |-> <<"k1">>, data |-> [v |-> "c"]]

OpDeleteK2 == [type |-> "delete", id |-> <<"k2">>, data |-> [v |-> ""]]

OpDeleteGone == [type |-> "delete", id |-> <<"gone">>, data |-> [v |-> ""]]

OperationLists ==
    { <<OpAddNew>>, <<OpAddK3, OpUpdateK1>>, <<OpUpdateK1, OpAddNew>>,
      <<OpDeleteK2, OpAddK3>>, <<OpAddNew, OpDeleteK2>> }

PaddingSizes == {0, AtomicLimit - 2, AtomicLimit - 1}

\* the first operation, size deletions of a document that does not exist,
\* then the other operations
Padded(ops, size) ==
    <<Head(ops)>> \o [i \in 1..size |-> OpDeleteGone] \o Tail(ops)

BatchOptions ==
    { [useTransaction |-> FALSE, chunkSize |-> 1, maxRetries |-> DefaultMaxRetries],
      [useTransaction |-> TRUE, chunkSize |-> AtomicLimit,
       maxRetries |-> DefaultMaxRetries],
      [useTransaction |-> FALSE, chunkSize |-> AtomicLimit,
       maxRetries |-> DefaultMaxRetries] }

InitTx ==
    /\ pc = "tx"
    /\ existingContacts \in TxStores
    /\ tx = NoTx
    /\ contactFields = CoreFields
    /\ fieldsData = Loaded(CoreFields)
    /\ lastCall = NoCall
    /\ uploadError = NULL
    /\ persisted = NoneWritten
    /\ guard = NoGuard
    /\ headers = <<>>
    /\ rows = <<>>
    /\ mappings = <<>>
    /\ users = <<>>
    /\ processedContacts = <<>>
    /\ analyzedAgainst = <<>>
    /\ previewSummary = NoSummary
    /\ importedPlan = EmptyPlan
    /\ issuedOps = <<>>
    /\ importResults = NoResults
    /\ nextId = 0
    /\ currentStep = "closed"
    /\ detectedFields = <<>>
    /\ draftMappings = <<>>
    /\ isImporting = FALSE
    /\ modalResults = NoResults
    /\ validationErrors = <<>>

txRest == <<pc, headers, rows, mappings, users, processedContacts, analyzedAgainst,
            previewSummary, importedPlan, issuedOps, importResults, wizardVars,
            contactFields, fieldsData, lastCall, uploadError, persisted, guard>>

\* the call has been made and its for loop is about to make an attempt
Started(call, operations, maxRetries) ==
    [call |-> call, phase |-> "running", operations |-> operations,
     maxRetries |-> maxRetries, attempt |-> 0, events |-> <<>>,
     before |-> existingContacts, beforeId |-> nextId,
     result |-> <<>>, error |-> "", lastError |-> NULL]

\* the call has settled without an attempt of transactionWrite
SettledCall(call, operations, phase, result, error) ==
    [call |-> call, phase |-> phase, operations |-> operations,
     maxRetries |-> DefaultMaxRetries, attempt |-> 0, events |-> <<>>,
     before |-> existingContacts, beforeId |-> nextId,
     result |-> result, error |-> error, lastError |-> NULL]

\* attempt++ and the test of the for loop: another attempt, or the throw of
\* lastError after the loop
NextAttempt(t) ==
    IF t.attempt + 1 < t.maxRetries
    THEN [t EXCEPT !.phase = "running", !.attempt = @ + 1]
    ELSE [t EXCEPT !.phase = "rejected", !.attempt = @ + 1, !.error = t.lastError]

\* transactionWrite(operations, operationName, maxRetries) is called
TransactionWrite(call, operations, maxRetries) ==
    /\ IF maxRetries > 0
       THEN tx' = Started(call, operations, maxRetries)
       ELSE tx' = SettledCall(call, operations, "rejected", <<>>,
                              "Transaction failed after all retries")
    /\ UNCHANGED <<existingContacts, nextId>>

\* errors.join('; ') over the entries `Chunk ${chunkIndex + 1} failed: ...`
RECURSIVE JoinChunkErrors(_)
JoinChunkErrors(failedChunks) ==
    IF failedChunks = <<>> THEN ""
    ELSE "Chunk " \o ToString(Head(failedChunks)) \o " failed"
         \o (IF Len(failedChunks) > 1 THEN "; " ELSE "")
         \o JoinChunkErrors(Tail(failedChunks))

\* the message that keeps the first entry of errors only
FirstChunkError(failedChunks) ==
    "Some operations failed: " \o JoinChunkErrors(<<Head(failedChunks)>>)

\* new Error(`Some operations failed: ${errors.join('; ')}`)
AggregatedError(failedChunks) ==
    "Some operations failed: " \o JoinChunkErrors(failedChunks)

\* the chunks of batchWrite: each chunk commits or fails as a whole, the
\* failed chunks are reported together.  events keeps, per chunk, where it
\* starts and ends in operations and whether its commit succeeded
BatchWriteChunks(call, operations, options, failed) ==
    LET chunks == Chunks(operations, options.chunkSize)
        RECURSIVE From(_, _)
        From(c, st) ==
            IF c > Len(chunks) THEN st
            ELSE LET inTx == options.useTransaction /\ Len(chunks[c]) <= AtomicLimit
                     ok   == c \notin failed /\ Committable(st.written.store, chunks[c])
                     next == IF ok THEN WriteAll(st.written, chunks[c], ~inTx)
                             ELSE AbortedWrites(st.written, chunks[c])
                 IN  From(c + 1, [written |-> next,
                                  errors  |-> IF ok THEN st.errors
                                              ELSE Append(st.errors, c),
                                  events  |-> Append(st.events,
                                      [kind  |-> "chunk", ok |-> ok,
                                       first |-> (c - 1) * options.chunkSize + 1,
                                       size  |-> Len(chunks[c]),
                                       inTx  |-> inTx])])
        ran == From(1, [written |-> [store |-> existingContacts, nextId |-> nextId,
                                     results |-> <<>>],
                        errors  |-> <<>>,
                        events  |-> <<>>])
        out == [store |-> ran.written.store, nextId |-> ran.written.nextId,
                results |-> ran.written.results, errors |-> ran.errors]
    IN  /\ existingContacts' = out.store
        /\ nextId' = out.nextId
        /\ tx' = [(IF out.errors # <<>>
                   THEN SettledCall(call, operations, "rejected", <<>>,
                                    AggregatedError(out.errors))
                   ELSE SettledCall(call, operations, "resolved", out.results, ""))
                  EXCEPT !.events = ran.events]

\* batchWrite(operations, operationName, options)
BatchWrite(call, operations, options) ==
    IF options.useTransaction /\ Len(operations) <= AtomicLimit
    THEN TransactionWrite(call, operations, options.maxRetries)
    ELSE \E failed \in SUBSET (1..Len(Chunks(operations, options.chunkSize))) :
             BatchWriteChunks(call, operations, options, failed)

\* atomicBatchWrite(operations, operationName)
AtomicBatchWrite(operations) ==
    IF ExceedsAtomicLimit(operations)
    THEN /\ tx' = SettledCall("atomicBatchWrite", operations, "rejected", <<>>,
                              AtomicLimitMessage)
         /\ UNCHANGED <<existingContacts, nextId>>
    ELSE BatchWrite("atomicBatchWrite", operations,
                    [useTransaction |-> TRUE, chunkSize |-> AtomicLimit,
                     maxRetries |-> DefaultMaxRetries])

CallAtomicBatchWrite ==
    /\ pc = "tx"
    /\ tx = NoTx
    /\ \E ops \in OperationLists : \E size \in PaddingSizes :
         AtomicBatchWrite(Padded(ops, size))
    /\ UNCHANGED txRest

CallBatchWrite ==
    /\ pc = "tx"
    /\ tx = NoTx
    /\ \E ops \in OperationLists : \E options \in BatchOptions :
       \E size \in (IF options.chunkSize = AtomicLimit THEN PaddingSizes ELSE {0}) :
         BatchWrite("batchWrite", Padded(ops, size), options)
    /\ UNCHANGED txRest

CallTransactionWrite ==
    /\ pc = "tx"
    /\ tx = NoTx
    /\ \E ops \in OperationLists : \E maxRetries \in 1..MaxRetryInput :
         TransactionWrite("transactionWrite", ops, maxRetries)
    /\ UNCHANGED txRest

\* one pass of the for loop of transactionWrite up to its next await: the
\* attempt commits every write and the call returns, or it fails with none
\* and is followed by the wait or by the throw of lastError
RunTransactionAttempt ==
    /\ pc = "tx"
    /\ tx.phase = "running"
    /\ \E outcome \in AttemptOutcomes(existingContacts, tx.operations) :
         LET st  == [store |-> existingContacts, nextId |-> nextId, results |-> <<>>]
             out == IF outcome = "committed"
                    THEN WriteAll(st, tx.operations, FALSE)
                    ELSE AbortedWrites(st, tx.operations)
             events == Append(tx.events,
                              [kind |-> "attempt", ok |-> outcome = "committed",
                               value |-> IF outcome = "committed" THEN out.results
                                         ELSE outcome])
         IN  /\ existingContacts' = out.store
             /\ nextId' = out.nextId
             /\ tx' = IF outcome = "committed"
                      THEN [tx EXCEPT !.phase = "resolved", !.events = events,
                                      !.result = out.results]
                      ELSE IF BackoffDue(tx.attempt, tx.maxRetries)
                      THEN [tx EXCEPT !.phase = "waiting", !.events = events,
                                      !.lastError = outcome]
                      ELSE NextAttempt([tx EXCEPT !.events = events,
                                                  !.lastError = outcome])
    /\ UNCHANGED txRest

\* the timer of the back-off fires and the loop goes on
BackoffElapsed ==
    /\ pc = "tx"
    /\ tx.phase = "waiting"
    /\ tx' = NextAttempt([tx EXCEPT
                             !.events = Append(@, [kind |-> "wait", ok |-> TRUE,
                                                   value |-> BackoffDelay(tx.attempt)])])
    /\ UNCHANGED <<existingContacts, nextId, txRest>>

NextTx ==
    \/ CallAtomicBatchWrite
    \/ CallBatchWrite
    \/ CallTransactionWrite
    \/ RunTransactionAttempt
    \/ BackoffElapsed

SpecTx == InitTx /\ [][NextTx]_vars

\* transactionWrite called on its own
NextRetry == CallTransactionWrite \/ RunTransactionAttempt \/ BackoffElapsed

\* runTransaction settles and the timer of setTimeout fires
SpecRetry ==
    /\ InitTx
    /\ [][NextRetry]_vars
    /\ WF_vars(RunTransactionAttempt)
    /\ WF_vars(BackoffElapsed)

(***************************************************************************)
(* Specification of the import against a collection that other clients     *)
(* write to between the analysis and the import                            *)
(***************************************************************************)
\* another client changes the contacts collection while the preview is
\* shown; the snapshot that would re-run the analysis has not been delivered
RemoteWrite ==
    /\ pc = "preview"
    /\ importedPlan = NoSummary
    /\ existingContacts = analyzedAgainst
    /\ \E store \in DistinctSeqs(StoredContacts, MaxExisting) :
         /\ store # existingContacts
         /\ existingContacts' = store
    /\ UNCHANGED hookVars
    /\ UNCHANGED wizardVars
    /\ UNCHANGED <<pc, headers, rows, mappings, users, processedContacts,
                   analyzedAgainst, previewSummary, importedPlan, issuedOps,
                   importResults, nextId>>

MaxPlanRows == 3

\* rows that the analysis merges into c1, creates, and rejects as invalid
PlanRows ==
    { << JoMail, <<"a", "b", "c">>, <<"J", "o">> >>,
      << <<>>, <<"1", "-", "2", "3">>, <<"A", "n", "n">> >>,
      << <<"n", "o", "@", "b">>, <<>>, <<"B", "o", "b">> >> }

PlanMappings ==
    << [name |-> "Email", targetField |-> "email", targetFieldType |-> "text"],
       [name |-> "Phone", targetField |-> "phone", targetFieldType |-> "text"],
       [name |-> "Name", targetField |-> "firstName", targetFieldType |-> "text"] >>

InitPersist ==
    /\ pc = "mounted"
    /\ headers = FileHeaders
    /\ rows \in SeqsOf(PlanRows, 1, MaxPlanRows)
    /\ mappings = PlanMappings
    /\ users = <<Jo>>
    /\ processedContacts = <<>>
    /\ existingContacts \in DistinctSeqs(StoredContacts, 1)
    /\ analyzedAgainst = <<>>
    /\ previewSummary = NoSummary
    /\ importedPlan = NoSummary
    /\ issuedOps = <<>>
    /\ importResults = NoResults
    /\ nextId = 0
    /\ currentStep = "final"
    /\ detectedFields = <<>>
    /\ draftMappings = <<>>
    /\ isImporting = FALSE
    /\ modalResults = NoResults
    /\ validationErrors = <<>>
    /\ contactFields = CoreFields
    /\ fieldsData = Loaded(CoreFields)
    /\ lastCall = NoCall
    /\ tx = NoTx
    /\ uploadError = NULL
    /\ persisted = NoneWritten
    /\ guard = NoGuard

NextPersist ==
    RunAnalysisProcess \/ RemoteWrite \/ HandleActualImport \/ AtomicImportContacts

SpecPersist == InitPersist /\ [][NextPersist]_vars

(***************************************************************************)
(* Specification of the merge of importContacts applied again and again    *)
(* to the record it produced                                               *)
(***************************************************************************)
MaxMerges == 3

\* candidates with padded, blank and new values
MergeCandidates ==
    AnalyzeCandidates \cup
    { [email |-> <<" ", "J", "O", "@", "b", ".", "c", "o", " ">>,
       phone |-> <<"1", "2", "3">>],
      [phone |-> <<" ", "9", "9", "\t">>, firstName |-> <<"J", "o">>],
      [firstName |-> <<" ", "A", "n", "n", " ">>, lastName |-> <<>>],
      [email |-> <<"a", "@", "b", ".", "c", "o">>, lastName |-> <<" ", "L", "e", "e">>,
       company |-> <<"A", "c", "m", "e", " ">>] }

InitMerge ==
    /\ pc = "merge"
    /\ headers = <<>>
    /\ rows = <<>>
    /\ mappings = <<>>
    /\ users = <<Jo>>
    /\ processedContacts \in SeqsOf(MergeCandidates, 1, 1)
    /\ existingContacts \in SeqsOf(StoredContacts, 1, 1)
    /\ analyzedAgainst = existingContacts
    /\ previewSummary = NoSummary
    /\ importedPlan = NoSummary
    /\ issuedOps = <<>>
    /\ importResults = NoResults
    /\ nextId = 0
    /\ currentStep = "final"
    /\ detectedFields = <<>>
    /\ draftMappings = <<>>
    /\ isImporting = FALSE
    /\ modalResults = NoResults
    /\ validationErrors = <<>>
    /\ contactFields = CoreFields
    /\ fieldsData = Loaded(CoreFields)
    /\ lastCall = NoCall
    /\ tx = NoTx
    /\ uploadError = NULL
    /\ persisted = NoneWritten
    /\ guard = NoGuard

\* a merge that keeps the existing value in front of the new one
ApplyMergeKeepingBoth ==
    /\ pc = "merge"
    /\ nextId < MaxMerges
    /\ LET contact  == processedContacts[1]
           existing == existingContacts[1]
           merged   == MergeContact(contact, existing)
       IN  existingContacts' =
               << [k \in DOMAIN merged |->
                      IF k \in DOMAIN contact /\ Overwrites(contact, existing, k)
                      THEN FieldOrEmpty(existing, k) \o merged[k]
                      ELSE merged[k]] >>
    /\ nextId' = nextId + 1
    /\ UNCHANGED hookVars
    /\ UNCHANGED wizardVars
    /\ UNCHANGED <<pc, headers, rows, mappings, users, processedContacts,
                   analyzedAgainst, previewSummary, importedPlan, issuedOps,
                   importResults>>

\* the merge block of importContacts on the pair (contact, existing), the
\* merged record taking the place of existing
ApplyMerge ==
    /\ pc = "merge"
    /\ nextId < MaxMerges
    /\ existingContacts' =
           << MergeContact(processedContacts[1], existingContacts[1]) >>
    /\ nextId' = nextId + 1
    /\ UNCHANGED hookVars
    /\ UNCHANGED wizardVars
    /\ UNCHANGED <<pc, headers, rows, mappings, users, processedContacts,
                   analyzedAgainst, previewSummary, importedPlan, issuedOps,
                   importResults>>

SpecMerge == InitMerge /\ [][ApplyMerge]_vars

(***************************************************************************)
(* Specification of findBestFieldMatchCombined on its own, with the        *)
(* analysis it logs for every candidate it evaluates                       *)
(***************************************************************************)
\* the object logged as `Field "${field.id}" analysis:` and kept in details
Analysis(header, sampleData, result, lenient) ==
    LET fuzzyScore   == FuzzyScore(result.score)
        dataScore    == CalculateEnhancedDataScore(sampleData, result.field.type, lenient)
        keywordBonus == CalculateKeywordBonus(header, result.field.id)
        legacyBonus  == CalculateLegacySimilarity(header, result.field)
    IN  [field           |-> result.field.id,
         fuzzyScore      |-> fuzzyScore,
         dataScore       |-> dataScore,
         keywordBonus    |-> keywordBonus,
         legacyBonus     |-> legacyBonus,
         totalConfidence |-> Min(fuzzyScore + dataScore + keywordBonus + legacyBonus,
                                 ConfidenceCap)]

\* the analyses of one call, in the order of the loop over
\* fuseResults.slice(0, 3)
Analyses(header, sampleData, fuseResults, lenient) ==
    [i \in 1..Min(FuseTop, Len(fuseResults)) |->
        Analysis(header, sampleData, fuseResults[i], lenient)]

InitScore ==
    /\ pc = "score"
    /\ \E file \in DetectFiles :
         /\ headers = file.headers
         /\ rows = file.rows
    /\ contactFields \in Catalogs
    /\ fieldsData = Loaded(contactFields)
    /\ lastCall = NoCall
    /\ tx = NoTx
    /\ uploadError = NULL
    /\ persisted = NoneWritten
    /\ guard = NoGuard
    /\ mappings = <<>>
    /\ users = <<Jo>>
    /\ processedContacts = <<>>
    /\ existingContacts = <<>>
    /\ analyzedAgainst = <<>>
    /\ previewSummary = NoSummary
    /\ importedPlan = NoSummary
    /\ issuedOps = <<>>
    /\ importResults = NoResults
    /\ nextId = 0
    /\ currentStep = "upload"
    /\ detectedFields = <<>>
    /\ draftMappings = <<>>
    /\ isImporting = FALSE
    /\ modalResults = NoResults
    /\ validationErrors = <<>>

\* findBestFieldMatchCombined(cleanHeader, sampleData) for one header of the
\* file, the fuzzy index answering with up to MaxFuseResults results
FindBestCall ==
    /\ pc = "score"
    /\ lastCall = NoCall
    /\ \E index \in 1..Len(headers) :
       \E ranking \in FuseRankings : \E n \in 0..MaxFuseResults :
       \E base \in FuseBaseScores : \E lenient \in BOOLEAN :
         LET cleanHeader == NormalizeHeader(headers[index])
             sampleData  == SampleData(rows, index)
             fuseResults == FuseResults(contactFields, ranking, n, base)
         IN  lastCall' =
                 [op        |-> "findBestFieldMatchCombined",
                  n         |-> 1,
                  header    |-> cleanHeader,
                  results   |-> [i \in 1..Len(fuseResults) |->
                                    [field |-> fuseResults[i].field.id,
                                     score |-> fuseResults[i].score]],
                  evaluated |-> IF Len(fuseResults) = 0 THEN <<>>
                                ELSE Analyses(cleanHeader, sampleData, fuseResults,
                                              lenient),
                  bestMatch |-> FindBestFieldMatchCombined(cleanHeader, sampleData,
                                    fuseResults, contactFields, lenient)]
    /\ UNCHANGED <<contactFields, fieldsData, tx, uploadError, persisted, guard>>
    /\ UNCHANGED <<pc, headers, rows, mappings, users, processedContacts>>
    /\ UNCHANGED importVars
    /\ UNCHANGED wizardVars

SpecScore == InitScore /\ [][FindBestCall]_vars

(***************************************************************************)
(* Specification of AuthGuard: what it renders and where it redirects,     *)
(* for what useAuth and usePathname give it                                *)
(***************************************************************************)
MaxRedirects == 4

\* const publicRoutes = ['/auth/login', '/auth/signup']
PublicRoutes == {"/auth/login", "/auth/signup"}

\* the routes of the app
Routes == PublicRoutes \cup {"/", "/contacts", "/users"}

\* the signed-in user useAuth gives, or null
AuthUsers == {NULL, <<"u", "1">>, <<"u", "2">>}

\* the return value of AuthGuard: the spinner, the children inside the
\* layout with the Sidebar, null, or the bare children
Rendered(user, loading, pathname) ==
    LET isPublicRoute == pathname \in PublicRoutes
    IN  IF loading THEN "spinner"
        ELSE IF user # NULL /\ ~isPublicRoute THEN "layout"
        ELSE IF user # NULL /\ isPublicRoute THEN "null"
        ELSE "children"

\* the useEffect of AuthGuard: the router.push calls it adds to pushed
Redirected(user, pathname, pushed) ==
    LET isPublicRoute == pathname \in PublicRoutes
    IN  IF user = NULL /\ ~isPublicRoute THEN Append(pushed, "/auth/login")
        ELSE IF user # NULL /\ isPublicRoute THEN Append(pushed, "/")
        ELSE pushed

\* one render of AuthGuard followed by its effect
RenderAuthGuard(user, loading, pathname) ==
    [user     |-> user,
     loading  |-> loading,
     pathname |-> pathname,
     rendered |-> Rendered(user, loading, pathname),
     pushed   |-> Redirected(user, pathname, guard.pushed)]

InitAuth ==
    /\ pc = "auth"
    /\ guard = NoGuard
    /\ headers = <<>>
    /\ rows = <<>>
    /\ mappings = <<>>
    /\ users = <<Jo>>
    /\ processedContacts = <<>>
    /\ existingContacts = <<>>
    /\ analyzedAgainst = <<>>
    /\ previewSummary = NoSummary
    /\ importedPlan = NoSummary
    /\ issuedOps = <<>>
    /\ importResults = NoResults
    /\ nextId = 0
    /\ currentStep = "closed"
    /\ detectedFields = <<>>
    /\ draftMappings = <<>>
    /\ isImporting = FALSE
    /\ modalResults = NoResults
    /\ validationErrors = <<>>
    /\ contactFields = CoreFields
    /\ fieldsData = Loaded(CoreFields)
    /\ lastCall = NoCall
    /\ tx = NoTx
    /\ uploadError = NULL
    /\ persisted = NoneWritten

authRest == <<pc, headers, rows, mappings, users, processedContacts, importVars,
              wizardVars, contactFields, fieldsData, lastCall, tx, uploadError,
              persisted>>

\* the app is opened at a route: AuthGuard mounts while the auth state is
\* still being determined
MountAuthGuard ==
    /\ pc = "auth"
    /\ guard.rendered = "none"
    /\ \E pathname \in Routes :
         guard' = RenderAuthGuard(NULL, TRUE, pathname)
    /\ UNCHANGED authRest

\* useAuth gives a new user and loading false: the auth state is known, a
\* user signs in, or the user signs out
AuthStateChanged ==
    /\ pc = "auth"
    /\ guard.rendered # "none"
    /\ Len(guard.pushed) < MaxRedirects
    /\ \E user \in AuthUsers :
         /\ (user # guard.user \/ guard.loading)
         /\ guard' = RenderAuthGuard(user, FALSE, guard.pathname)
    /\ UNCHANGED authRest

\* the router completes the navigation of the last router.push
RouterNavigates ==
    /\ pc = "auth"
    /\ guard.rendered # "none"
    /\ guard.pushed # <<>>
    /\ Len(guard.pushed) < MaxRedirects
    /\ guard.pathname # guard.pushed[Len(guard.pushed)]
    /\ guard' = RenderAuthGuard(guard.user, guard.loading,
                                guard.pushed[Len(guard.pushed)])
    /\ UNCHANGED authRest

\* the visitor follows a link or enters an address
VisitorNavigates ==
    /\ pc = "auth"
    /\ guard.rendered # "none"
    /\ Len(guard.pushed) < MaxRedirects
    /\ \E pathname \in Routes :
         /\ pathname # guard.pathname
         /\ guard' = RenderAuthGuard(guard.user, guard.loading, pathname)
    /\ UNCHANGED authRest

NextAuth == MountAuthGuard \/ AuthStateChanged \/ RouterNavigates \/ VisitorNavigates

SpecAuth == InitAuth /\ [][NextAuth]_vars

(***************************************************************************)
(* Properties                                                              *)
(***************************************************************************)
Range(seq) == { seq[i] : i \in 1..Len(seq) }

Count(x, seq) == Cardinality({ i \in 1..Len(seq) : seq[i] = x })

IsBlank(value) == Trim(value) = <<>>

IsUpdateOp(op) == op.type = "update"

\* the update operations importContacts issued, in the order of willMerge
IssuedUpdates == SelectSeq(issuedOps, IsUpdateOp)

ImportWasRun == importedPlan # NoSummary

\* C1 -- Merge non-destructiveness: in the merged record that importContacts
\* builds for a pair of willMerge, a field whose existing value is non-blank is
\* never blank, and it differs from the existing value only when the candidate
\* supplies a non-blank value that differs from it.
C1_MergeNonDestructive ==
    ImportWasRun =>
        /\ Len(IssuedUpdates) = Len(importedPlan.willMerge)
        /\ \A i \in 1..Len(IssuedUpdates) :
             LET existing == importedPlan.willMerge[i].existing
                 contact  == importedPlan.willMerge[i].contact
                 merged   == IssuedUpdates[i].data
             IN  \A k \in DOMAIN existing :
                    ~IsBlank(existing[k]) =>
                        /\ k \in DOMAIN merged
                        /\ ~IsBlank(merged[k])
                        /\ merged[k] # existing[k] =>
                              /\ k \in DOMAIN contact
                              /\ ~IsBlank(contact[k])
                              /\ contact[k] # existing[k]

\* a merge was issued whose candidate holds a blank value for a field that is
\* non-blank on the existing contact
C1_Witness ==
    /\ ImportWasRun
    /\ \E i \in 1..Len(importedPlan.willMerge) :
         LET pair == importedPlan.willMerge[i]
         IN  \E k \in DOMAIN pair.contact \cap DOMAIN pair.existing :
                IsBlank(pair.contact[k]) /\ ~IsBlank(pair.existing[k])

\* C2 -- Partition completeness: after an analysis every processed contact
\* that passes validation is in exactly one of willCreate, willMerge, willSkip,
\* every one that fails is in the invalid list only, and the four sizes add up
\* to the number of processed contacts.
C2_PartitionComplete ==
    previewSummary # NoSummary =>
        LET creates == previewSummary.willCreate
            merges  == [i \in 1..Len(previewSummary.willMerge) |->
                           previewSummary.willMerge[i].contact]
            skips   == [i \in 1..Len(previewSummary.willSkip) |->
                           previewSummary.willSkip[i].contact]
            invalid == [i \in 1..Len(previewSummary.invalidContacts) |->
                           previewSummary.invalidContacts[i].contact]
        IN  /\ Len(creates) + Len(merges) + Len(skips) + Len(invalid)
                  = Len(processedContacts)
            /\ Len(previewSummary.errors) = Len(invalid)
            /\ \A c \in Range(processedContacts) :
                 IF IsValidContact(c)
                 THEN /\ Count(c, creates) + Count(c, merges) + Count(c, skips)
                            = Count(c, processedContacts)
                      /\ Count(c, invalid) = 0
                 ELSE /\ Count(c, invalid) = Count(c, processedContacts)
                      /\ Count(c, creates) + Count(c, merges) + Count(c, skips) = 0

\* an analysis that filled the invalid list, willSkip, and willCreate or willMerge
C2_Witness ==
    /\ previewSummary # NoSummary
    /\ Len(previewSummary.invalidContacts) + Len(previewSummary.willSkip) > 0
    /\ Len(previewSummary.willCreate) + Len(previewSummary.willMerge) > 0
    /\ Len(processedContacts) = MaxRows

\* C3 -- Idempotence of identical re-import: once the plan has been applied
\* in full and the analysis has run again on the same file against the
\* resulting contacts, no candidate is a create or a merge: every candidate
\* that is not an empty row is a skip 'Identical to existing'.
C3_ReimportAllIdentical ==
    (pc = "reanalyzed"
        /\ persisted.created = Len(importedPlan.willCreate)
        /\ persisted.updated = Len(importedPlan.willMerge)
        /\ analyzedAgainst = existingContacts) =>
        /\ previewSummary.willCreate = <<>>
        /\ previewSummary.willMerge = <<>>
        /\ \A i \in 1..Len(previewSummary.willSkip) :
             previewSummary.willSkip[i].reason \in {Identical, EmptyRow}

\* C5 -- Agent resolution: with a single text/email mapping onto agentUid and
\* no row dropped, a row whose agent cell is non-blank gets agentUid
\* "unassigned" when no user has that email (case-insensitively), and a value
\* other than "unassigned" when a user has it.
C5_AgentResolution ==
    (pc = "rowsDone" /\ Len(processedContacts) = Len(rows)) =>
        \A i \in 1..Len(rows) : \A j \in 1..Len(mappings) :
            LET m   == mappings[j]
                col == IndexOf(headers, m.name)
            IN  ( /\ m.targetField = "agentUid"
                  /\ m.targetFieldType \in {"text", "email"}
                  /\ \A n \in 1..Len(mappings) :
                        n # j => mappings[n].targetField # "agentUid"
                  /\ col \in 1..Len(rows[i])
                  /\ ~IsBlank(rows[i][col]) )
                =>
                /\ "agentUid" \in DOMAIN processedContacts[i]
                /\ IF \E u \in Range(users) :
                          ToLowerCase(u.email) = ToLowerCase(Trim(rows[i][col]))
                   THEN processedContacts[i].agentUid # Unassigned
                   ELSE processedContacts[i].agentUid = Unassigned

\* C8 -- no candidate returned by processAllRowsForImport holds a field whose
\* value is an empty or whitespace-only string.
C8_NoBlankField ==
    pc = "rowsDone" =>
        \A i \in 1..Len(processedContacts) :
            \A k \in DOMAIN processedContacts[i] : ~IsBlank(processedContacts[i][k])

SameEmail(c, ex) ==
    /\ "email" \in DOMAIN c /\ ~IsBlank(c.email)
    /\ "email" \in DOMAIN ex
    /\ ToLowerCase(c.email) = ToLowerCase(ex.email)

SamePhone(c, ex) ==
    /\ "phone" \in DOMAIN c /\ ~IsBlank(c.phone)
    /\ "phone" \in DOMAIN ex
    /\ DigitsOnly(c.phone) = DigitsOnly(ex.phone)

Matching(c, existing) ==
    { i \in 1..Len(existing) : SameEmail(c, existing[i]) \/ SamePhone(c, existing[i]) }

Least(S) == CHOOSE n \in S : \A m \in S : n <= m

\* C10 -- Duplicate matching: a valid non-empty candidate is in willCreate if
\* and only if no existing contact has the same email or the same phone;
\* a candidate of willMerge is paired with the earliest existing contact that
\* matches it.
C10_DuplicateMatching ==
    previewSummary # NoSummary =>
        /\ \A c \in Range(processedContacts) :
             (IsValidContact(c) /\ ~AllMappedBlank(c, MappedKeys(mappings))) =>
                (c \in Range(previewSummary.willCreate)
                    <=> Matching(c, analyzedAgainst) = {})
        /\ \A i \in 1..Len(previewSummary.willMerge) :
             LET pair == previewSummary.willMerge[i]
             IN  /\ Matching(pair.contact, analyzedAgainst) # {}
                 /\ pair.existing =
                        analyzedAgainst[Least(Matching(pair.contact, analyzedAgainst))]

\* a candidate matched by its phone alone, and a candidate that two existing
\* contacts match
C10_Witness ==
    /\ previewSummary # NoSummary
    /\ \E i \in 1..Len(previewSummary.willMerge) :
         LET pair == previewSummary.willMerge[i]
         IN  /\ Cardinality(Matching(pair.contact, analyzedAgainst)) > 1
             /\ ~SameEmail(pair.contact, pair.existing)
             /\ SamePhone(pair.contact, pair.existing)

\* C4 -- Duplicate-key detection: once two confirmed mappings share a target
\* field, validation has reported an error, the wizard has not reached the
\* step 'final' and no import plan has been produced.
C4_DuplicateMappingsBlocked ==
    (pc \in {"wizard", "mounted", "preview", "snapshot", "reanalyzed", "results", "closed"}
     /\ DuplicateTargets(mappings) # {}) =>
        /\ validationErrors # <<>>
        /\ currentStep # "final"
        /\ previewSummary = NoSummary

InDetection == pc \in {"detect", "detected", "threw"}

\* C6 -- detectFields never throws and returns exactly one entry per header,
\* in header order, whatever the headers, the samples and the catalog are.
C6_OneEntryPerHeader ==
    InDetection =>
        /\ pc # "threw"
        /\ pc = "detected" =>
             /\ Len(detectedFields) = Len(headers)
             /\ \A i \in 1..Len(headers) : detectedFields[i].name = headers[i]

\* C7 -- Threshold: every entry detectFields produces has a confidence in
\* 0..100, and an entry with a non-empty suggestedMapping has a confidence
\* strictly greater than 30.
C7_Threshold ==
    InDetection =>
        \A i \in 1..Len(detectedFields) :
            /\ detectedFields[i].confidence \in 0..100
            /\ detectedFields[i].suggestedMapping # "" =>
                 detectedFields[i].confidence > 30

\* detectFields returned a suggestion for one header and none for another
C7_Witness ==
    /\ pc = "detected"
    /\ \E i \in 1..Len(detectedFields) :
         /\ detectedFields[i].suggestedMapping # ""
         /\ detectedFields[i].confidence > 30
         /\ detectedFields[i].confidence < 100
    /\ \E i \in 1..Len(detectedFields) : detectedFields[i].confidence = 100
    /\ \E i \in 1..Len(detectedFields) :
         /\ detectedFields[i].suggestedMapping = ""
         /\ detectedFields[i].confidence = 0

\* the value of key k on a record, trimmed, absent counting as empty
TrimmedValue(record, k) ==
    IF k \in DOMAIN record THEN Trim(record[k]) ELSE <<>>

SameOnMappedKeys(c, ex) ==
    \A k \in Range(MappedKeys(mappings)) : TrimmedValue(c, k) = TrimmedValue(ex, k)

IsNonEmptyCandidate(c) ==
    IsValidContact(c) /\ \E k \in Range(MappedKeys(mappings)) : TrimmedValue(c, k) # <<>>

\* C11 -- Identical versus merge: a candidate that an existing contact matches
\* is in willSkip with reason 'Identical to existing' exactly when its trimmed
\* value equals the matched contact's trimmed value on every mapped key;
\* otherwise it is in willMerge, paired with the matched contact.
C11_IdenticalOrMerge ==
    previewSummary # NoSummary =>
        \A c \in Range(processedContacts) :
            (IsNonEmptyCandidate(c) /\ Matching(c, analyzedAgainst) # {}) =>
                LET matched == analyzedAgainst[Least(Matching(c, analyzedAgainst))]
                    skipped == [contact |-> c, reason |-> Identical]
                    merged  == [contact |-> c, existing |-> matched]
                IN  IF SameOnMappedKeys(c, matched)
                    THEN /\ Count(skipped, previewSummary.willSkip)
                               = Count(c, processedContacts)
                         /\ \A i \in 1..Len(previewSummary.willMerge) :
                               previewSummary.willMerge[i].contact # c
                    ELSE /\ Count(merged, previewSummary.willMerge)
                               = Count(c, processedContacts)
                         /\ \A i \in 1..Len(previewSummary.willSkip) :
                               previewSummary.willSkip[i].contact # c

\* one analysis found a matched candidate identical only after trimming the
\* existing value, and another matched candidate that differs
C11_Witness ==
    /\ previewSummary # NoSummary
    /\ \E i \in 1..Len(previewSummary.willSkip) :
         LET c == previewSummary.willSkip[i].contact
         IN  /\ previewSummary.willSkip[i].reason = Identical
             /\ \E j \in Matching(c, analyzedAgainst) :
                  \E k \in Range(MappedKeys(mappings)) :
                     /\ k \in DOMAIN analyzedAgainst[j]
                     /\ analyzedAgainst[j][k] # Trim(analyzedAgainst[j][k])
    /\ Len(previewSummary.willMerge) > 0

RequiredKeys == {"firstName", "lastName", "email", "phone"}

Populated(c, k) == k \in DOMAIN c /\ c[k] # <<>>

HasRequiredData(c) == \E k \in RequiredKeys : Populated(c, k)

HasBadEmail(c) == Populated(c, "email") /\ ~EmailRegexTest(Trim(c.email))

InPlan(c) ==
    \/ c \in Range(previewSummary.willCreate)
    \/ \E i \in 1..Len(previewSummary.willMerge) : previewSummary.willMerge[i].contact = c
    \/ \E i \in 1..Len(previewSummary.willSkip) : previewSummary.willSkip[i].contact = c

\* C12 -- Validation: a processed contact is in the invalid list with reason
\* 'Missing required data' exactly when none of firstName, lastName, email,
\* phone is populated, with reason 'Invalid email format' exactly when one of
\* them is populated and its populated email fails the format check; every
\* other contact is in the plan, an invalid one never is, and every processed
\* contact is in the one or the other.
C12_Validation ==
    previewSummary # NoSummary =>
        \A c \in Range(processedContacts) :
            LET missing  == [contact |-> c, reason |-> MissingRequired]
                badEmail == [contact |-> c, reason |-> InvalidEmail]
                invalid  == previewSummary.invalidContacts
            IN  /\ Count(missing, invalid) =
                      (IF ~HasRequiredData(c) THEN Count(c, processedContacts) ELSE 0)
                /\ Count(badEmail, invalid) =
                      (IF HasRequiredData(c) /\ HasBadEmail(c)
                       THEN Count(c, processedContacts) ELSE 0)
                /\ InPlan(c) <=> (HasRequiredData(c) /\ ~HasBadEmail(c))

\* an analysis of two rows that rejected one for each of the two reasons
C12_Witness ==
    /\ previewSummary # NoSummary
    /\ MissingRequired \in Range(previewSummary.errors)
    /\ InvalidEmail \in Range(previewSummary.errors)

\* the candidates of the rows of the file, in row order, the rows that yield
\* no field left out
RowCandidates ==
    LET candidate(i) == ProcessRow(EmptyContact, headers, rows[i], mappings, users, FALSE)
        all          == [i \in 1..Len(rows) |-> candidate(i)]
        HasField(c)  == DOMAIN c # {}
    IN  SelectSeq(all, HasField)

Contacts(entries) == [i \in 1..Len(entries) |-> entries[i].contact]

\* the members of seq that occur in bucket, in the order of seq
Restricted(seq, bucket) ==
    LET InBucket(c) == c \in Range(bucket) IN SelectSeq(seq, InBucket)

\* C13 -- Ordering: the processed contacts are the candidates of the rows in
\* row order, and each of willCreate, willMerge, willSkip and the invalid list
\* holds its contacts in the order in which they occur among the processed
\* contacts.
C13_Ordering ==
    previewSummary # NoSummary =>
        /\ processedContacts = RowCandidates
        /\ previewSummary.willCreate =
               Restricted(processedContacts, previewSummary.willCreate)
        /\ Contacts(previewSummary.willMerge) =
               Restricted(processedContacts, Contacts(previewSummary.willMerge))
        /\ Contacts(previewSummary.willSkip) =
               Restricted(processedContacts, Contacts(previewSummary.willSkip))
        /\ Contacts(previewSummary.invalidContacts) =
               Restricted(processedContacts, Contacts(previewSummary.invalidContacts))

\* an analysis that put two different candidates into willCreate
C13_Witness ==
    /\ previewSummary # NoSummary
    /\ Len(previewSummary.willCreate) = 2
    /\ previewSummary.willCreate[1] # previewSummary.willCreate[2]

BlankOnMappedKeys(c) ==
    \A k \in Range(MappedKeys(mappings)) : TrimmedValue(c, k) = <<>>

\* C14 -- Empty row: a candidate handed to analyzeImport whose value is blank,
\* whitespace-only or absent for every mapped key is in willSkip with reason
\* 'Empty row', once for each time it occurs, and is neither in willCreate nor
\* in willMerge, whatever the existing contacts are.
C14_EmptyRow ==
    (pc = "analyzed") =>
        \A c \in Range(processedContacts) :
            BlankOnMappedKeys(c) =>
                /\ Count([contact |-> c, reason |-> EmptyRow], previewSummary.willSkip)
                       = Count(c, processedContacts)
                /\ c \notin Range(previewSummary.willCreate)
                /\ c \notin Range(Contacts(previewSummary.willMerge))

\* analyzeImport skipped as empty a candidate that holds a whitespace-only
\* value, against a non-empty list of existing contacts
C14_Witness ==
    /\ pc = "analyzed"
    /\ analyzedAgainst # <<>>
    /\ \E i \in 1..Len(previewSummary.willSkip) :
         /\ previewSummary.willSkip[i].reason = EmptyRow
         /\ \E k \in DOMAIN previewSummary.willSkip[i].contact :
              previewSummary.willSkip[i].contact[k] # <<>>

CoreIn(store, fieldId) ==
    \E i \in 1..Len(store) : store[i].id = fieldId /\ store[i].core

\* the label, the type and the core flag of every core field of before are
\* those it has in store
CoreFieldsKept(before, store) ==
    \A i \in 1..Len(before) :
        before[i].core =>
            \E j \in 1..Len(store) :
                /\ store[j].id = before[i].id
                /\ store[j].label = before[i].label
                /\ store[j].type = before[i].type
                /\ store[j].core

\* C15 -- Core-field protection: an updateField or a deleteField aimed at a
\* core field is rejected and leaves the catalog as it was, so that the core
\* field keeps its seeded label, type and core flag.
C15_CoreFieldsProtected ==
    (/\ pc = "catalog"
     /\ lastCall.op \in {"updateField", "deleteField"}
     /\ CoreIn(lastCall.before, lastCall.id)) =>
        /\ lastCall.outcome = "rejected"
        /\ contactFields = lastCall.before
        /\ CoreFieldsKept(lastCall.before, contactFields)

\* C16 -- createCustomField derives the id from the label; when the catalog
\* already has a field of that id the call is rejected and the catalog is
\* unchanged, and no call overwrites a definition the catalog had.
C16_CreateNeverOverwrites ==
    (pc = "catalog" /\ lastCall.op = "createCustomField") =>
        /\ HasDoc(lastCall.before, lastCall.id) =>
              /\ lastCall.outcome = "rejected"
              /\ contactFields = lastCall.before
        /\ \A i \in 1..Len(lastCall.before) :
              \E j \in 1..Len(contactFields) : contactFields[j] = lastCall.before[i]

SameEmailIgnoringCase(a, b) == ToLowerCase(a) = ToLowerCase(b)

\* C17 -- User email uniqueness: no two users of the directory have the same
\* email, compared without regard to case, and a createUser whose email
\* belongs to an existing user is rejected with 'User with this email already
\* exists' and adds nothing.
C17_UserEmailsUnique ==
    pc = "users" =>
        /\ \A i, j \in 1..Len(users) :
              SameEmailIgnoringCase(users[i].email, users[j].email) => i = j
        /\ (/\ lastCall.op = "createUser"
            /\ \E i \in 1..Len(lastCall.before) :
                  SameEmailIgnoringCase(lastCall.before[i].email, lastCall.email)) =>
              /\ lastCall.outcome = "rejected"
              /\ lastCall.error = EmailExistsMessage
              /\ users = lastCall.before

\* the catalog or the user directory the components hold is empty
SystemicFailure == fieldsData.data = <<>> \/ users = <<>>

\* C18 -- Systemic failures are surfaced: when the catalog or the user
\* directory is empty, detection and reconciliation do not come to rest
\* without an error being reported, and they deliver neither a list of
\* detected mappings nor a plan.
C18_SystemicFailuresSurfaced ==
    (SystemicFailure /\ pc \in {"idle", "analyzing", "fieldsDetected", "preview"}) =>
        /\ uploadError # NULL
        /\ pc \notin {"fieldsDetected", "preview"}

\* the collection once every operation of the call has been applied
AllApplied(t) ==
    WriteAll([store |-> t.before, nextId |-> t.beforeId, results |-> <<>>],
             t.operations, FALSE).store

TxSettled == tx.phase \in {"resolved", "rejected"}

\* C19 -- atomicBatchWrite is all-or-nothing: with more than 500 operations
\* it rejects without an attempt and without a write; with at most 500 the
\* collection holds, in every state of the call, either none or all of the
\* operations: all of them once it has resolved, none once it has rejected,
\* whatever attempts failed before.
C19_AtomicAllOrNothing ==
    (pc = "tx" /\ tx.call = "atomicBatchWrite") =>
        /\ existingContacts \in {tx.before, AllApplied(tx)}
        /\ Len(tx.operations) > AtomicLimit =>
              /\ tx.phase = "rejected"
              /\ tx.error = AtomicLimitMessage
              /\ tx.events = <<>>
              /\ existingContacts = tx.before
        /\ tx.phase = "resolved" => existingContacts = AllApplied(tx)
        /\ tx.phase \in {"running", "waiting", "rejected"} =>
              existingContacts = tx.before

\* a call of 500 operations resolved after a failed attempt, all applied
C19_Witness ==
    /\ pc = "tx"
    /\ tx.call = "atomicBatchWrite"
    /\ tx.phase = "resolved"
    /\ Len(tx.operations) = AtomicLimit
    /\ Len(tx.events) > 1
    /\ existingContacts = AllApplied(tx)
    /\ existingContacts # tx.before

IsAttempt(e) == e.kind = "attempt"

AttemptsIn(events) == Len(SelectSeq(events, IsAttempt))

\* what the events of a call of transactionWrite may be
RetriesBounded(t) ==
    LET ev == t.events
    IN  /\ AttemptsIn(ev) <= t.maxRetries
        /\ \A i \in 1..Len(ev) :
              (IsAttempt(ev[i]) /\ ev[i].ok) =>
                  /\ i = Len(ev)
                  /\ t.phase = "resolved"
                  /\ t.result = ev[i].value
        /\ t.phase = "resolved" => (ev # <<>> /\ IsAttempt(ev[Len(ev)]) /\ ev[Len(ev)].ok)
        /\ t.phase = "rejected" =>
              /\ AttemptsIn(ev) = t.maxRetries
              /\ \A i \in 1..Len(ev) : IsAttempt(ev[i]) => ~ev[i].ok
              /\ IsAttempt(ev[Len(ev)])
              /\ t.error = ev[Len(ev)].value
        /\ \A i \in 1..Len(ev) :
              ev[i].kind = "wait" =>
                  /\ i > 1
                  /\ IsAttempt(ev[i - 1]) /\ ~ev[i - 1].ok
                  /\ AttemptsIn(SubSeq(ev, 1, i)) < t.maxRetries
                  /\ i < Len(ev) => IsAttempt(ev[i + 1])
                  /\ TxSettled => i < Len(ev)

C21_PlanAuthoritative ==
    importedPlan # NoSummary =>
        LET wc == importedPlan.willCreate
            wm == importedPlan.willMerge
        IN  /\ importedPlan = previewSummary \/ pc = "reanalyzed"
            /\ Len(issuedOps) = Len(wc) + Len(wm)
            /\ \A i \in 1..Len(wc) :
                   /\ issuedOps[i].type = "add"
                   /\ issuedOps[i].data = wc[i]
            /\ \A j \in 1..Len(wm) :
                   /\ issuedOps[Len(wc) + j].type = "update"
                   /\ issuedOps[Len(wc) + j].id = wm[j].existing.id

\* an import of a plan with a create, a merge and a skipped or invalid row,
\* run after the collection lost the record the merge was paired with
C21_Witness ==
    /\ importedPlan # NoSummary
    /\ Len(importedPlan.willCreate) > 0
    /\ Len(importedPlan.willMerge) > 0
    /\ Len(importedPlan.willSkip) + Len(importedPlan.invalidContacts) > 0
    /\ analyzedAgainst # existingContacts
    /\ ~HasDoc(existingContacts, importedPlan.willMerge[1].existing.id)
    /\ Len(issuedOps) = Len(importedPlan.willCreate) + Len(importedPlan.willMerge)


\* C24: importContacts reports what was committed.  created is the number
\* of willCreate contacts whose write the store committed, updated the number
\* of willMerge pairs whose write it committed, skipped the size of willSkip;
\* a write that failed leaves an error string in errors; so created and
\* updated never exceed the sizes of willCreate and willMerge.
C24_ReportsCommitted ==
    importResults # NoResults =>
        /\ importResults.created = persisted.created
        /\ importResults.updated = persisted.updated
        /\ importResults.skipped = Len(importedPlan.willSkip)
        /\ importResults.created <= Len(importedPlan.willCreate)
        /\ importResults.updated <= Len(importedPlan.willMerge)
        /\ (persisted.created < Len(importedPlan.willCreate)
            \/ persisted.updated < Len(importedPlan.willMerge))
               => importResults.errors # <<>>


\* the collection and the ids after the chunks that committed, in order
RECURSIVE ReplayChunks(_, _, _)
ReplayChunks(t, c, st) ==
    IF c > Len(t.events) THEN st
    ELSE LET e     == t.events[c]
             chunk == SubSeq(t.operations, e.first, e.first + e.size - 1)
             next  == IF e.ok THEN WriteAll(st, chunk, TRUE) ELSE st
         IN  IF next.nextId >= st.nextId
             THEN ReplayChunks(t, c + 1, next)
             ELSE st

\* the indices of the chunks whose commit failed, in order
FailedChunks(t) ==
    LET RECURSIVE From(_)
        From(c) == IF c > Len(t.events) THEN <<>>
                   ELSE (IF t.events[c].ok THEN <<>> ELSE <<c>>) \o From(c + 1)
    IN  From(1)

\* a call of batchWrite that took the batch path without transactions
PlainBatchCall ==
    /\ pc = "tx"
    /\ tx.call = "batchWrite"
    /\ tx.phase \in {"resolved", "rejected"}
    /\ tx.events # <<>>
    /\ \A c \in 1..Len(tx.events) :
           tx.events[c].kind = "chunk" /\ ~tx.events[c].inTx

C25_WitnessBothFailed ==
    /\ PlainBatchCall
    /\ Len(tx.events) = 2
    /\ ~tx.events[1].ok
    /\ ~tx.events[2].ok


\* the state of ImportModal that handleClose resets
ModalState == <<currentStep, headers, rows, detectedFields, mappings, modalResults>>

\* C26: while isImporting is true a step that leaves it true (handleClose is
\* the only handler that can run then) changes nothing of the wizard and does
\* not close it; the modal is closed only when isImporting is false, and then
\* the wizard is back in its initial state: step 'upload', no file data, no
\* detected fields, empty mappings, no results; the step becomes 'final' only
\* by handleMappingComplete, from 'mapping' with the confirmed mappings stored.
C26_CloseGuardedByImporting ==
    [][/\ (isImporting /\ isImporting') =>
              /\ UNCHANGED ModalState
              /\ pc' = pc
       /\ isImporting => pc' # "closed"
       /\ (pc # "closed" /\ pc' = "closed") =>
              /\ ~isImporting
              /\ currentStep' = "upload"
              /\ headers' = <<>>
              /\ rows' = <<>>
              /\ detectedFields' = <<>>
              /\ mappings' = <<>>
              /\ modalResults' = NoResults
              /\ ~isImporting'
       /\ (currentStep # "final" /\ currentStep' = "final") =>
              /\ currentStep = "mapping"
              /\ mappings' = draftMappings
              /\ validationErrors' = <<>>
      ]_vars

\* the wizard closed and reset after an import that ran to its results
C26_Witness ==
    /\ pc = "closed"
    /\ importedPlan # NoSummary
    /\ currentStep = "upload"
    /\ rows = <<>>
    /\ modalResults = NoResults
    /\ ~isImporting

\* an import in progress: the state in which handleClose does nothing
C26_WitnessImporting ==
    /\ pc = "importing"
    /\ isImporting
    /\ currentStep = "final"


\* C27: merge application is idempotent.  Once a candidate has been merged
\* into a record, merging the same candidate into the result changes nothing:
\* merge(merge(existing, c), c) = merge(existing, c).
C27_MergeIdempotent ==
    (pc = "merge" /\ nextId >= 1) =>
        /\ MergeContact(processedContacts[1], existingContacts[1]) = existingContacts[1]
        /\ existingContacts[1] = MergeContact(processedContacts[1], analyzedAgainst[1])

\* a candidate merged twice into a record that its first merge changed
C27_Witness ==
    /\ pc = "merge"
    /\ nextId >= 2
    /\ existingContacts # analyzedAgainst
    /\ \E k \in DOMAIN processedContacts[1] :
           /\ k \in DOMAIN analyzedAgainst[1]
           /\ existingContacts[1][k] # analyzedAgainst[1][k]
    /\ \E k \in DOMAIN processedContacts[1] :
           processedContacts[1][k] # Trim(processedContacts[1][k])


\* C28: every pair that analyzeImport places in willMerge yields, under the
\* merge of importContacts, a record that differs from the matched existing
\* record in at least one field: a merge is never a no-op.
C28_MergeChangesRecord ==
    previewSummary # NoSummary =>
        \A j \in 1..Len(previewSummary.willMerge) :
            LET pair == previewSummary.willMerge[j]
            IN  MergeContact(pair.contact, pair.existing) # pair.existing


\* C23: score composition in findBestFieldMatchCombined.  For every
\* candidate it evaluates, the fuzzy score lies in 0..60, the data-pattern
\* score in 0..40, the keyword bonus is 0, 15 or 30, the legacy word-overlap
\* bonus lies in 0..20 even when the header equals the label or the id (the
\* cap comes after the +25), and the confidence is the sum of the four cut at
\* 100; the candidates are the first three fuzzy results, in their order,
\* and the match returned carries the confidence of one of them.
C23_ScoreComposition ==
    (pc = "score" /\ lastCall.op = "findBestFieldMatchCombined"
                  /\ lastCall.results # <<>>) =>
        LET ev == lastCall.evaluated
        IN  /\ Len(ev) = Min(3, Len(lastCall.results))
            /\ \A i \in 1..Len(ev) :
                   /\ ev[i].field = lastCall.results[i].field
                   /\ ev[i].fuzzyScore \in 0..60
                   /\ ev[i].dataScore \in 0..40
                   /\ ev[i].keywordBonus \in {0, 15, 30}
                   /\ ev[i].legacyBonus \in 0..20
                   /\ ev[i].totalConfidence =
                          Min(ev[i].fuzzyScore + ev[i].dataScore
                              + ev[i].keywordBonus + ev[i].legacyBonus, 100)
            /\ ~lastCall.bestMatch.isNull =>
                   \E i \in 1..Len(ev) :
                       /\ lastCall.bestMatch.field.id = ev[i].field
                       /\ lastCall.bestMatch.confidence = ev[i].totalConfidence

\* a call with four fuzzy results, of which three were evaluated, one of them
\* with the four scores adding up to more than 100 and the legacy bonus at
\* its cap
C23_Witness ==
    /\ pc = "score"
    /\ lastCall.op = "findBestFieldMatchCombined"
    /\ Len(lastCall.results) = 4
    /\ Len(lastCall.evaluated) = 3
    /\ \E i \in 1..3 :
           LET e == lastCall.evaluated[i]
           IN  /\ e.fuzzyScore + e.dataScore + e.keywordBonus + e.legacyBonus > 100
               /\ e.legacyBonus = 20
               /\ e.totalConfidence = 100


\* AuthGuard has rendered and what it returned puts the children on screen
ShowsChildren == guard.rendered \in {"layout", "children"}

\* C22: route protection.  Whenever no user is authenticated and the route
\* is not public, AuthGuard does not render the protected children and a
\* redirect to /auth/login has been issued; whenever a user is authenticated
\* on a public route, a redirect to '/' has been issued and the public page
\* is not rendered.
C22_RouteProtection ==
    (pc = "auth" /\ guard.rendered # "none") =>
        /\ (guard.user = NULL /\ guard.pathname \notin PublicRoutes) =>
               /\ ~ShowsChildren
               /\ guard.pushed # <<>>
               /\ guard.pushed[Len(guard.pushed)] = "/auth/login"
        /\ (guard.user # NULL /\ guard.pathname \in PublicRoutes) =>
               /\ ~ShowsChildren
               /\ guard.pushed # <<>>
               /\ guard.pushed[Len(guard.pushed)] = "/"

====
